---- MODULE Spec2Model ----
(***************************************************************************)
(* tunnelman: the tunnel registry (internal/core/manager.go), the process  *)
(* supervisor (internal/core/process.go) and the PID ledger                *)
(* (internal/store/store.go), as one state machine.                        *)
(*                                                                         *)
(* A step of the model is one lock region, one file read or write, or one  *)
(* signal/wait of the Go code.  Goroutines are the callers of the registry *)
(* API, the per-process waiters (monitorProcess, monitorTunnel), the       *)
(* asynchronous ledger writers started by LoadPids, and the construction   *)
(* of a new TunnelManager after the supervisor has been restarted.         *)
(***************************************************************************)
EXTENDS Naturals, Integers, Sequences, FiniteSets, TLC

\* ---------------------------------------------------------------- bounds
MaxPid == 2          \* processes ever spawned (pids 1..MaxPid)
MaxRestarts == 1     \* supervisor restarts (NewTunnelManager runs again)
MaxBacklog == 1      \* events the consumer lets pile up before it reads
MaxAsync == 2        \* asynchronous ledger writes pending at a time

\* ------------------------------------------------------ program constants
QueueCap == 100      \* make(chan TunnelStatusChange, 100)

Ids == {"a", "b"}
Callers == {"c1", "c2"}
Pids == 1..MaxPid

StatusStopped == "stopped"
StatusRunning == "running"
StatusError == "error"
StatusConnecting == "connecting"
StatusZero == ""     \* zero value of TunnelStatus in a Tunnel literal

NoTunnel == [Status |-> "absent", PID |-> 0, StartedAt |-> 0, LastError |-> "nil"]
NoRec == [PID |-> 0, Started |-> 0]

\* time.Now() in half seconds; RFC3339 keeps whole seconds only
Clock == {3}
FormatRFC3339(t) == t \div 2
ParseRFC3339(s) == 2 * s

\* The Tunnel object NewTunnel / loadTunnels build: stopped, no runtime data
NewTunnel == [Status |-> StatusStopped, PID |-> 0, StartedAt |-> 0, LastError |-> "nil"]
\* A Tunnel literal that sets configuration fields only (the edit form)
FormTunnel == [Status |-> StatusZero, PID |-> 0, StartedAt |-> 0, LastError |-> "nil"]

NoOut == [by |-> "none", op |-> "none", id |-> "none", res |-> "none"]
Out(c, op, id, res) == [by |-> c, op |-> op, id |-> id, res |-> res]

VARIABLES
  tunnels,        \* tm.tunnels: id -> the stored Tunnel (runtime fields) or NoTunnel
  processes,      \* pm.processes: id -> pid of the tracked handle, 0 if none
  call,           \* per caller: the registry call it is executing
  pmon,           \* monitorProcess goroutine of each spawned pid
  tmon,           \* monitorTunnel goroutine started by the start that spawned pid
  statusChanges,  \* tm.statusChanges channel contents
  ledger,         \* pids.json: id -> PidInfo or NoRec
  asyncSaves,     \* pending `go fps.SavePids(cleanedData)` writes
  os,             \* OS process table: pid -> "none" | "alive" | "dead"
  owner,          \* pid -> tunnel id the ssh process was spawned for
  sigs,           \* live pid -> signals delivered to it so far, as <<signal, target>>
  sent,           \* signals the last step of the program delivered, as <<pid, signal, target>>
  configFile,     \* config.json: ids of the persisted tunnel specs
  invalid,        \* ids whose spec (in the registry and in config.json) fails Validate()
  consumer,       \* the reader of GetStatusChanges(): "reading" | "absent"
  boot,           \* NewTunnelManager: progress of restoreTunnelStates
  restarts,       \* number of supervisor restarts so far
  bulk,           \* StopAllTunnels: Cleanup's workers, their errors, its deadline; the
                  \* sweep over tm.tunnels made with tm.mu held
  batch,          \* StartProfileTunnels: its list of tunnels, its position, the failed ones
  lib,            \* the function of the core package applied last: its argument, its result
  out             \* what the last step of the program returned to its caller, NoOut if nothing

vars == <<tunnels, processes, call, pmon, tmon, statusChanges, ledger,
          asyncSaves, os, owner, sigs, sent, configFile, invalid, consumer,
          boot, restarts, bulk, batch, lib, out>>

\* groups of variables for the frame conditions
specs == <<configFile, invalid>>
registry == <<tunnels, configFile, invalid>>
handles == <<processes, pmon>>
ostable == <<os, owner, sigs>>
lifecycle == <<boot, restarts, consumer, bulk, batch, lib>>

\* the step returns nothing to a caller / delivers no signal
NoReturn == out' = NoOut
NoSignal == sent' = {}

\* ------------------------------------------------------------- helpers
IdleCall == [pc |-> "idle", op |-> "none", id |-> "none",
             pid |-> 0, old |-> "none", detached |-> FALSE, bad |-> FALSE,
             snap |-> <<>>, err |-> "nil"]
NoMon == [pc |-> "none", id |-> "none", old |-> "none", new |-> "none", err |-> "nil", snap |-> <<>>]
IdleBulk == [pc |-> "idle", ids |-> {}, w |-> [i \in Ids |-> "none"],
             pid |-> [i \in Ids |-> 0], seen |-> [i \in Ids |-> 0],
             errs |-> {}, expired |-> FALSE,
             mu |-> FALSE, todo |-> {}, cur |-> "none", snap |-> <<>>]
NoLib == [op |-> "none", arg |-> <<>>, debug |-> FALSE, ret |-> <<>>]
IdleBatch == [pc |-> "idle", by |-> "none", list |-> <<>>, i |-> 0, failed |-> {}]
BootDone == [pc |-> "done", pids |-> <<>>, todo |-> {}, cur |-> "none", snap |-> <<>>]

EmptyLedger == [i \in Ids |-> NoRec]

\* a liveness check that takes every pid for a live process
isProcessRunningAlways(pid) == pid > 0

\* store.go isProcessRunning / process.Signal(0): the pid names a live process
isProcessRunning(pid) == pid > 0 /\ pid \in Pids /\ os[pid] = "alive"

\* a cleaning loop that keeps nothing
CleanedNone(data) == [i \in Ids |-> NoRec]

\* LoadPids' cleaning loop: keep the entries whose process is running
Cleaned(data) == [i \in Ids |-> IF isProcessRunning(data[i].PID) THEN data[i] ELSE NoRec]

\* who called LoadPids: a registry call, a monitorTunnel goroutine,
\* restoreTunnelStates' RemovePid, or a caller that only reads the data
CallerOf(c) == [c |-> c, p |-> 0]
MonitorOf(p) == [c |-> "monitor", p |-> p]
Restorer == [c |-> "restore", p |-> 0]
Reader == [c |-> "reader", p |-> 0]
Sweeper == [c |-> "shutdown", p |-> 0]

\* LoadPids: returns the cleaned data; when entries were dropped it starts
\* an asynchronous SavePids(cleanedData).  The writer shares the map with the
\* caller who of LoadPids: it writes the
\* cleaned data when it runs before who has changed and saved the map, and
\* what who has made of the map when it runs afterwards.
LoadPidsResult == Cleaned(ledger)
LoadPidsAsync(who) ==
  IF Cleaned(ledger) # ledger
    THEN asyncSaves \cup {[data |-> Cleaned(ledger), who |-> who]}
    ELSE asyncSaves

\* who has changed the map LoadPids gave it and saves it as data: the writers
\* that share the map write data from now on
Shared(who, data) ==
  {IF w.who = who THEN [data |-> data, who |-> Reader] ELSE w : w \in asyncSaves}

\* the writers LoadPids started earlier have run often enough for one more
CanLoad == Cardinality(LoadPidsAsync(Reader)) <= MaxAsync

\* store.NewPidInfo
NewPidInfo(pid, now) == [PID |-> pid, Started |-> FormatRFC3339(now)]

\* a send that does not look at the room left in the channel
notifyAlways(q, id, old, new, err) ==
  Append(q, [TunnelID |-> id, OldStatus |-> old, NewStatus |-> new, Error |-> err])

\* notifyStatusChange: non-blocking send, dropped when the channel is full
notifyStatusChange(q, id, old, new, err) ==
  IF Len(q) < QueueCap
    THEN Append(q, [TunnelID |-> id, OldStatus |-> old, NewStatus |-> new, Error |-> err])
    ELSE q

\* the consumer of the channel keeps up: it has received all but MaxBacklog - 1
\* of the events sent so far before the registry, a waiter or a writer moves on
\* (nothing waits for a consumer that does not exist)
KeepsUp == consumer = "absent" \/ Len(statusChanges) < MaxBacklog

\* tm.mu is free: every other lock region of the registry is one step, and
\* StopAllTunnels keeps the lock over the steps of its sweep (manager.go 351-367)
MuFree == ~bulk.mu

NextPid == Cardinality({p \in Pids : os[p] # "none"}) + 1

\* the state NewTunnelManager leaves when config.json holds the specs cfg and
\* there is no pids.json: every tunnel stopped, nothing spawned yet
Constructed(cfg) ==
  /\ tunnels = [i \in Ids |-> IF i \in cfg THEN NewTunnel ELSE NoTunnel]
  /\ processes = [i \in Ids |-> 0]
  /\ call = [c \in Callers |-> IdleCall]
  /\ pmon = [p \in Pids |-> "none"]
  /\ tmon = [p \in Pids |-> NoMon]
  /\ statusChanges = <<>>
  /\ ledger = EmptyLedger
  /\ asyncSaves = {}
  /\ os = [p \in Pids |-> "none"]
  /\ owner = [p \in Pids |-> "none"]
  /\ sigs = [p \in Pids |-> {}]
  /\ sent = {}
  /\ configFile = cfg
  /\ boot = BootDone
  /\ restarts = 0
  /\ bulk = IdleBulk
  /\ batch = IdleBatch
  /\ lib = NoLib
  /\ out = NoOut

\* every tunnel of Ids configured with a valid spec, the consumer reading
Init == Constructed(Ids) /\ invalid = {} /\ consumer = "reading"

\* one tunnel configured
InitOne == Constructed({"a"}) /\ invalid = {} /\ consumer = "reading"

\* ------------------------------------------------------------ OS, consumer
\* the process is gone: its table entry and the signals it had received with it
Dead(p) == /\ os' = [os EXCEPT ![p] = "dead"]
           /\ sigs' = [sigs EXCEPT ![p] = {}]

\* a signal reaches the live process p
Deliver(p, sig, target) == [sigs EXCEPT ![p] = @ \cup {<<sig, target>>}]

\* the ssh child exits (connection lost, or in answer to a SIGTERM) and is
\* reaped: from here on no signal can be delivered to it
ProcessExit(p) ==
  /\ KeepsUp
  /\ os[p] = "alive"
  /\ Dead(p)
  /\ NoReturn /\ NoSignal
  /\ UNCHANGED <<registry, handles, call, tmon, statusChanges, ledger, asyncSaves,
                 owner, lifecycle>>

\* the operating system gives the pid of a process that is gone and reaped to
\* a process that no supervisor has spawned; signal 0 and every other signal
\* sent to the pid reach that process (store.go 308-326, process.go 323-330)
PidReused(p) ==
  /\ KeepsUp
  /\ os[p] = "dead"
  /\ pmon[p] = "none"
  /\ os' = [os EXCEPT ![p] = "alive"]
  /\ owner' = [owner EXCEPT ![p] = "other"]
  /\ NoReturn /\ NoSignal
  /\ UNCHANGED <<registry, handles, call, tmon, statusChanges, ledger, asyncSaves,
                 sigs, lifecycle>>

\* the consumer of GetStatusChanges() receives one event
ConsumeEvent ==
  /\ consumer = "reading"
  /\ statusChanges # <<>>
  /\ statusChanges' = Tail(statusChanges)
  /\ UNCHANGED <<registry, handles, call, tmon, ledger, asyncSaves, ostable, lifecycle, out, sent>>

\* the goroutine LoadPids started runs SavePids(cleanedData)
AsyncSavePids ==
  /\ KeepsUp
  /\ \E w \in asyncSaves :
       /\ ledger' = w.data
       /\ asyncSaves' = asyncSaves \ {w}
  /\ NoReturn /\ NoSignal
  /\ UNCHANGED <<registry, handles, call, tmon, statusChanges, ostable, lifecycle>>

\* ------------------------------------------------------------ StartTunnel
\* a write through the *Tunnel pointer the call holds: it reaches the registry
\* only while that object is still the one stored under the id
Store(c, t) ==
  IF call[c].detached THEN tunnels ELSE [tunnels EXCEPT ![call[c].id] = t]

\* a StartProfileTunnels that gives up at the first failed start
StartReturnedAbort(b, c, res) ==
  IF b.pc = "loop" /\ b.by = c
    THEN IF res = "ok" THEN [b EXCEPT !.i = @ + 1]
                       ELSE [b EXCEPT !.i = Len(b.list) + 1, !.failed = @ \cup {b.list[b.i].id}]
    ELSE b

\* manager.go 399-410: StartTunnel has returned res to caller c; when c is in
\* the loop of StartProfileTunnels the tunnel is noted as failed unless res is
\* nil, and the loop goes on with the next tunnel
StartReturned(b, c, res) ==
  IF b.pc = "loop" /\ b.by = c
    THEN [b EXCEPT !.i = @ + 1,
                   !.failed = IF res = "ok" THEN @ ELSE @ \cup {b.list[b.i].id}]
    ELSE b

\* manager.go 199: the status that makes StartTunnel refuse
StartRefused(status) == status = StatusRunning

\* manager.go 192-207: the guarded transition to Connecting; the call keeps the
\* *Tunnel it found, whose spec may fail validation
StartTunnelBegin(c, id) ==
  /\ KeepsUp
  /\ MuFree
  /\ boot.pc = "done"
  /\ call[c].pc = "idle"
  /\ IF tunnels[id] = NoTunnel
       THEN /\ out' = Out(c, "start", id, "not_found")
            /\ batch' = StartReturned(batch, c, "not_found")
            /\ UNCHANGED <<tunnels, call>>
       ELSE IF StartRefused(tunnels[id].Status)
         THEN /\ out' = Out(c, "start", id, "already_running")
              /\ batch' = StartReturned(batch, c, "already_running")
              /\ UNCHANGED <<tunnels, call>>
         ELSE /\ tunnels' = [tunnels EXCEPT ![id].Status = StatusConnecting]
              /\ call' = [call EXCEPT ![c] = [IdleCall EXCEPT !.pc = "start_connect", !.op = "start",
                                              !.id = id, !.old = tunnels[id].Status,
                                              !.bad = id \in invalid]]
              /\ NoReturn
              /\ UNCHANGED batch
  /\ NoSignal
  /\ UNCHANGED <<specs, handles, tmon, statusChanges, ledger, asyncSaves, ostable,
                 boot, restarts, consumer, bulk, lib>>

\* manager.go 210-213 and process.go 86-161 Connect: the Connecting event, then
\* the spawn of the ssh child in its own process group
StartTunnelConnect(c) ==
  /\ call[c].pc = "start_connect"
  /\ KeepsUp
  /\ statusChanges' = notifyStatusChange(statusChanges, call[c].id, call[c].old, StatusConnecting, "nil")
  /\ \/ \* process.go 92-94: tunnel.Validate() fails, nothing is spawned
        /\ call[c].bad
        /\ call' = [call EXCEPT ![c].pc = "start_error", ![c].err = "invalid"]
        /\ UNCHANGED <<os, owner, handles>>
     \/ \* cmd.Start() succeeds: handle registered, monitorProcess started
        /\ ~call[c].bad
        /\ NextPid <= MaxPid
        /\ os' = [os EXCEPT ![NextPid] = "alive"]
        /\ owner' = [owner EXCEPT ![NextPid] = call[c].id]
        /\ processes' = [processes EXCEPT ![call[c].id] = NextPid]
        /\ pmon' = [pmon EXCEPT ![NextPid] = "waiting"]
        /\ call' = [call EXCEPT ![c].pc = "start_running", ![c].pid = NextPid]
     \/ \* cmd.Start() fails: nothing registered
        /\ ~call[c].bad
        /\ call' = [call EXCEPT ![c].pc = "start_error", ![c].err = "spawn"]
        /\ UNCHANGED <<os, owner, handles>>
  /\ NoReturn /\ NoSignal
  /\ UNCHANGED <<registry, tmon, ledger, asyncSaves, sigs, lifecycle>>

\* a failed start that keeps no cause
FailedNoCause(t, err) == [t EXCEPT !.Status = StatusError]

\* manager.go 216-217: the tunnel of a start whose Connect returned err
Failed(t, err) == [t EXCEPT !.Status = StatusError, !.LastError = err]

\* manager.go 215-218
StartTunnelError(c) ==
  /\ KeepsUp
  /\ MuFree
  /\ call[c].pc = "start_error"
  /\ tunnels' = Store(c, Failed(tunnels[call[c].id], call[c].err))
  /\ call' = [call EXCEPT ![c].pc = "start_error_notify"]
  /\ NoReturn /\ NoSignal
  /\ UNCHANGED <<specs, handles, tmon, statusChanges, ledger, asyncSaves, ostable, lifecycle>>

\* manager.go 223-224
StartTunnelErrorNotify(c) ==
  /\ call[c].pc = "start_error_notify"
  /\ KeepsUp
  /\ statusChanges' = notifyStatusChange(statusChanges, call[c].id, StatusConnecting, StatusError, call[c].err)
  /\ call' = [call EXCEPT ![c] = IdleCall]
  /\ out' = Out(c, "start", call[c].id, "start_failed")
  /\ batch' = StartReturned(batch, c, "start_failed")
  /\ NoSignal
  /\ UNCHANGED <<registry, handles, tmon, ledger, asyncSaves, ostable,
                 boot, restarts, consumer, bulk, lib>>

\* manager.go 228-239
StartTunnelRunning(c) ==
  /\ KeepsUp
  /\ MuFree
  /\ call[c].pc = "start_running"
  /\ \E now \in Clock :
       tunnels' = Store(c, [Status |-> StatusRunning, PID |-> call[c].pid,
                            StartedAt |-> now, LastError |-> "nil"])
  /\ call' = [call EXCEPT ![c].pc = "start_addpid_load"]
  /\ NoReturn /\ NoSignal
  /\ UNCHANGED <<specs, handles, tmon, statusChanges, ledger, asyncSaves, ostable, lifecycle>>

\* store.go AddPid 218-225: LoadPids, then the new entry in the loaded data
StartTunnelAddPidLoad(c) ==
  /\ KeepsUp
  /\ call[c].pc = "start_addpid_load"
  /\ CanLoad
  /\ \E now \in Clock :
       call' = [call EXCEPT ![c].pc = "start_finish",
                            ![c].snap = [LoadPidsResult EXCEPT ![call[c].id] = NewPidInfo(call[c].pid, now)]]
  /\ asyncSaves' = LoadPidsAsync(CallerOf(c))
  /\ NoReturn /\ NoSignal
  /\ UNCHANGED <<registry, handles, tmon, statusChanges, ledger, ostable, lifecycle>>

\* store.go AddPid 227 (SavePids) and manager.go 250-255: the Running event,
\* go tm.monitorTunnel(id), return nil
StartTunnelFinish(c) ==
  /\ call[c].pc = "start_finish"
  /\ KeepsUp
  /\ ledger' = call[c].snap
  /\ asyncSaves' = Shared(CallerOf(c), call[c].snap)
  /\ statusChanges' = notifyStatusChange(statusChanges, call[c].id, StatusConnecting, StatusRunning, "nil")
  /\ tmon' = [tmon EXCEPT ![call[c].pid] = [NoMon EXCEPT !.pc = "poll", !.id = call[c].id]]
  /\ call' = [call EXCEPT ![c] = IdleCall]
  /\ out' = Out(c, "start", call[c].id, "ok")
  /\ batch' = StartReturned(batch, c, "ok")
  /\ NoSignal
  /\ UNCHANGED <<registry, handles, ostable, boot, restarts, consumer, bulk, lib>>

\* ------------------------------------------------------------- StopTunnel
\* StopTunnel without its status check
StopRefusedNever(status) == FALSE

\* manager.go 267: the status that makes StopTunnel refuse
StopRefused(status) == status # StatusRunning

\* manager.go 260-274
StopTunnelBegin(c, id) ==
  /\ KeepsUp
  /\ MuFree
  /\ boot.pc = "done"
  /\ call[c].pc = "idle"
  /\ IF tunnels[id] = NoTunnel
       THEN /\ out' = Out(c, "stop", id, "not_found")
            /\ UNCHANGED call
       ELSE IF StopRefused(tunnels[id].Status)
         THEN /\ out' = Out(c, "stop", id, "not_running")
              /\ UNCHANGED call
         ELSE /\ call' = [call EXCEPT ![c] = [IdleCall EXCEPT !.pc = "stop_disconnect", !.op = "stop",
                                              !.id = id, !.pid = tunnels[id].PID,
                                              !.old = tunnels[id].Status]]
              /\ NoReturn
  /\ NoSignal
  /\ UNCHANGED <<registry, handles, tmon, statusChanges, ledger, asyncSaves, ostable, lifecycle>>

\* process.go 317-337 killProcessByPID: SIGTERM to the bare pid, SIGKILL only
\* when the SIGTERM could not be delivered (then neither can the SIGKILL); no wait
killProcessByPID(c) ==
  IF isProcessRunning(call[c].pid)
    THEN /\ sigs' = Deliver(call[c].pid, "TERM", "pid")
         /\ sent' = {<<call[c].pid, "TERM", "pid">>}
         /\ call' = [call EXCEPT ![c].pc = "stop_cleanup"]
    ELSE /\ sigs' = sigs
         /\ sent' = {}
         /\ call' = [call EXCEPT ![c].pc = "stop_cleanup", ![c].err = "kill_failed"]

\* process.go 174-193 Disconnect with a tracked handle: SIGTERM to the process
\* group of the handle, SIGKILL to the group when that cannot be delivered
\* (then neither can the SIGKILL, and Disconnect returns the error)
DisconnectSignal(c) ==
  IF isProcessRunning(processes[call[c].id])
    THEN /\ sigs' = Deliver(processes[call[c].id], "TERM", "group")
         /\ sent' = {<<processes[call[c].id], "TERM", "group">>}
         /\ call' = [call EXCEPT ![c].pc = "stop_wait", ![c].pid = processes[call[c].id]]
    ELSE /\ sigs' = sigs
         /\ sent' = {}
         /\ call' = [call EXCEPT ![c].pc = "stop_cleanup", ![c].err = "kill_failed"]

\* manager.go 277, process.go 164-172: Disconnect(id, pid) looks the handle up
StopTunnelDisconnect(c) ==
  /\ KeepsUp
  /\ call[c].pc = "stop_disconnect"
  /\ IF processes[call[c].id] = 0 THEN killProcessByPID(c) ELSE DisconnectSignal(c)
  /\ NoReturn
  /\ UNCHANGED <<registry, handles, tmon, statusChanges, ledger, asyncSaves, os, owner, lifecycle>>

\* process.go 201-212: the signal sent when the grace window (5 s) has elapsed
\* and the process has not exited: Cmd.Process.Kill()
GraceKill(p) == <<p, "KILL", "pid">>

\* a wait for the exit that has no grace window
DisconnectWaitForExit(p) ==
  /\ os[p] = "dead"
  /\ sent' = {}
  /\ UNCHANGED <<os, sigs>>

\* process.go 195-212: the select on the exit of the process and the grace window
DisconnectWait(p) ==
  \/ \* <-done: the process has exited
     /\ os[p] = "dead"
     /\ sent' = {}
     /\ UNCHANGED <<os, sigs>>
  \/ \* <-time.After(5 * time.Second): still running
     /\ os[p] = "alive"
     /\ sent' = {GraceKill(p)}
     /\ Dead(p)

\* process.go 195-219: wait for the exit up to the grace window, else kill;
\* then delete(pm.processes, id)
StopTunnelWait(c) ==
  /\ KeepsUp
  /\ call[c].pc = "stop_wait"
  /\ DisconnectWait(call[c].pid)
  /\ processes' = [processes EXCEPT ![call[c].id] = 0]
  /\ call' = [call EXCEPT ![c].pc = "stop_cleanup"]
  /\ NoReturn
  /\ UNCHANGED <<registry, pmon, tmon, statusChanges, ledger, asyncSaves, owner, lifecycle>>

\* a stop that clears its bookkeeping only when Disconnect returned nil
StopCleanedOnSuccess(t, err) ==
  IF err = "nil" THEN [t EXCEPT !.Status = StatusStopped, !.PID = 0, !.StartedAt = 0] ELSE t

\* manager.go 277-289: the error of Disconnect is logged only; the tunnel is
\* marked stopped whatever it was
StopCleaned(t, err) == [t EXCEPT !.Status = StatusStopped, !.PID = 0, !.StartedAt = 0]

\* manager.go 285-290
StopTunnelCleanup(c) ==
  /\ KeepsUp
  /\ MuFree
  /\ call[c].pc = "stop_cleanup"
  /\ tunnels' = Store(c, StopCleaned(tunnels[call[c].id], call[c].err))
  /\ call' = [call EXCEPT ![c].pc = "stop_removepid_load"]
  /\ NoReturn /\ NoSignal
  /\ UNCHANGED <<specs, handles, tmon, statusChanges, ledger, asyncSaves, ostable, lifecycle>>

\* store.go RemovePid 231-237: LoadPids, then delete from the loaded data
StopTunnelRemovePidLoad(c) ==
  /\ KeepsUp
  /\ call[c].pc = "stop_removepid_load"
  /\ CanLoad
  /\ call' = [call EXCEPT ![c].pc = "stop_finish",
                          ![c].snap = [LoadPidsResult EXCEPT ![call[c].id] = NoRec]]
  /\ asyncSaves' = LoadPidsAsync(CallerOf(c))
  /\ NoReturn /\ NoSignal
  /\ UNCHANGED <<registry, handles, tmon, statusChanges, ledger, ostable, lifecycle>>

\* store.go RemovePid 239 (SavePids) and manager.go 296-298
StopTunnelFinish(c) ==
  /\ call[c].pc = "stop_finish"
  /\ KeepsUp
  /\ ledger' = call[c].snap
  /\ asyncSaves' = Shared(CallerOf(c), call[c].snap)
  /\ statusChanges' = notifyStatusChange(statusChanges, call[c].id, call[c].old, StatusStopped, "nil")
  /\ call' = [call EXCEPT ![c] = IdleCall]
  /\ out' = Out(c, "stop", call[c].id, "ok")
  /\ NoSignal
  /\ UNCHANGED <<registry, handles, tmon, ostable, lifecycle>>

\* ---------------------------------------------------------------- waiters
\* process.go 340-356 monitorProcess: Cmd.Wait() has returned;
\* delete(pm.processes, tunnelID)
monitorProcess(p) ==
  /\ KeepsUp
  /\ pmon[p] = "waiting"
  /\ os[p] = "dead"
  /\ pmon' = [pmon EXCEPT ![p] = "none"]
  /\ processes' = [processes EXCEPT ![owner[p]] = 0]
  /\ NoReturn /\ NoSignal
  /\ UNCHANGED <<registry, call, tmon, statusChanges, ledger, asyncSaves, ostable, lifecycle>>

\* the waiter without its status check: it marks the tunnel Stopped always
monitorUpdateAlways(t) == [t EXCEPT !.Status = StatusStopped, !.PID = 0, !.StartedAt = 0]

\* manager.go 476-482: what the waiter does to the stored tunnel
monitorUpdate(t) ==
  IF t.Status = StatusRunning
    THEN [t EXCEPT !.Status = StatusStopped, !.PID = 0, !.StartedAt = 0]
    ELSE t

\* manager.go 458-466 monitorTunnel: the poll loop finds no handle for the id
monitorTunnelPoll(p) ==
  /\ KeepsUp
  /\ tmon[p].pc = "poll"
  /\ processes[tmon[p].id] = 0
  /\ tmon' = [tmon EXCEPT ![p].pc = "update"]
  /\ NoReturn /\ NoSignal
  /\ UNCHANGED <<registry, handles, call, statusChanges, ledger, asyncSaves, ostable, lifecycle>>

\* manager.go 468-486 monitorTunnel: the locked look at the tunnel stored under
\* the id now, and its update
monitorTunnelUpdate(p) ==
  /\ KeepsUp
  /\ MuFree
  /\ tmon[p].pc = "update"
  /\ LET id == tmon[p].id
         t == tunnels[id]
     IN IF t = NoTunnel
          THEN /\ tmon' = [tmon EXCEPT ![p] = NoMon]
               /\ UNCHANGED tunnels
          ELSE /\ tunnels' = [tunnels EXCEPT ![id] = monitorUpdate(t)]
               /\ tmon' = [tmon EXCEPT ![p].pc = "load", ![p].old = t.Status,
                                       ![p].new = monitorUpdate(t).Status, ![p].err = t.LastError]
  /\ NoReturn /\ NoSignal
  /\ UNCHANGED <<specs, handles, call, statusChanges, ledger, asyncSaves, ostable, lifecycle>>

\* manager.go 488-489, store.go RemovePid 231-237: whatever the status was,
\* LoadPids and delete from the loaded data
monitorTunnelRemovePidLoad(p) ==
  /\ KeepsUp
  /\ tmon[p].pc = "load"
  /\ CanLoad
  /\ tmon' = [tmon EXCEPT ![p].pc = "save",
                          ![p].snap = [LoadPidsResult EXCEPT ![tmon[p].id] = NoRec]]
  /\ asyncSaves' = LoadPidsAsync(MonitorOf(p))
  /\ NoReturn /\ NoSignal
  /\ UNCHANGED <<registry, handles, call, statusChanges, ledger, ostable, lifecycle>>

\* store.go RemovePid 239 (SavePids) and manager.go 492-494
monitorTunnelFinish(p) ==
  /\ tmon[p].pc = "save"
  /\ KeepsUp
  /\ ledger' = tmon[p].snap
  /\ asyncSaves' = Shared(MonitorOf(p), tmon[p].snap)
  /\ statusChanges' = IF tmon[p].old # tmon[p].new
                        THEN notifyStatusChange(statusChanges, tmon[p].id, tmon[p].old, tmon[p].new, tmon[p].err)
                        ELSE statusChanges
  /\ tmon' = [tmon EXCEPT ![p] = NoMon]
  /\ NoReturn /\ NoSignal
  /\ UNCHANGED <<registry, handles, call, ostable, lifecycle>>

\* --------------------------------------------- Validate and buildSSHArgs
\* tunnel.go 95: the highest port number
MaxPort == 65535

\* tunnel.go 17-22
LocalForward == "local"
RemoteForward == "remote"
DynamicForward == "dynamic"

\* the configuration fields of a Tunnel that Validate and buildSSHArgs read,
\* over values on both sides of every test they make
Ports == {-1, 0, 1, MaxPort, MaxPort + 1}
TunnelConfigs ==
  [Name : {"", "web"}, SSHHost : {"", "example.com"},
   Type : {LocalForward, RemoteForward, DynamicForward, "socks"},
   LocalHost : {"", "0.0.0.0", "10.0.0.1"}, LocalPort : Ports,
   RemoteHost : {"", "db"}, RemotePort : Ports,
   ExtraArgs : {<<>>, <<"-p", "2222">>}]

\* tunnel.go 95, 98: the test Validate makes of a port
ValidPort(p) == ~(p <= 0 \/ p > MaxPort)

\* a Validate that asks a destination port of every type of forward
ValidateAllPorts(t) ==
  IF t.Name = "" THEN "name_required"
  ELSE IF t.SSHHost = "" THEN "ssh_host_required"
  ELSE IF t.Type \notin {LocalForward, RemoteForward, DynamicForward} THEN "invalid_type"
  ELSE IF ~ValidPort(t.LocalPort) THEN "invalid_local_port"
  ELSE IF ~ValidPort(t.RemotePort) THEN "invalid_remote_port"
  ELSE "nil"

\* tunnel.go 81-123 Validate: the error it returns
Validate(t) ==
  IF t.Name = "" THEN "name_required"
  ELSE IF t.SSHHost = "" THEN "ssh_host_required"
  ELSE IF t.Type \in {LocalForward, RemoteForward}
    THEN IF ~ValidPort(t.LocalPort) THEN "invalid_local_port"
         ELSE IF ~ValidPort(t.RemotePort) THEN "invalid_remote_port"
         ELSE "nil"
  ELSE IF t.Type = DynamicForward
    THEN IF ~ValidPort(t.LocalPort) THEN "invalid_local_port" ELSE "nil"
  ELSE "invalid_type"

\* tunnel.go 101-103: what Validate leaves of the tunnel it accepted
Validated(t) ==
  IF t.Type = LocalForward /\ t.RemoteHost = "" THEN [t EXCEPT !.RemoteHost = "127.0.0.1"] ELSE t

\* one argument of the ssh command line
Arg(s) == <<"arg", s>>

\* process.go 249-274 with a forward of type local for every tunnel
ForwardArgsLocal(t) ==
  <<Arg("-L"), <<"%s:%d:%s:%d", t.LocalHost, t.LocalPort, t.RemoteHost, t.RemotePort>>>>

\* process.go 249-274: the forwarding flag and its fmt.Sprintf'ed spec
ForwardArgs(t) ==
  CASE t.Type = LocalForward ->
         <<Arg("-L"), <<"%s:%d:%s:%d", t.LocalHost, t.LocalPort, t.RemoteHost, t.RemotePort>>>>
    [] t.Type = RemoteForward ->
         LET localHost == IF t.LocalHost = "" \/ t.LocalHost = "0.0.0.0"
                            THEN "127.0.0.1" ELSE t.LocalHost
         IN <<Arg("-R"), <<"%d:%s:%d", t.RemotePort, localHost, t.LocalPort>>>>
    [] t.Type = DynamicForward ->
         <<Arg("-D"), <<"%s:%d", t.LocalHost, t.LocalPort>>>>
    [] OTHER -> <<>>

\* the options without those of the control socket
StabilityArgsNoControl ==
  <<Arg("-N"), Arg("-T"),
    Arg("-o"), Arg("ServerAliveInterval=60"),
    Arg("-o"), Arg("ServerAliveCountMax=3"),
    Arg("-o"), Arg("ExitOnForwardFailure=yes"),
    Arg("-o"), Arg("StrictHostKeyChecking=accept-new")>>

\* process.go 277-286: the options appended for every tunnel
StabilityArgs ==
  <<Arg("-N"), Arg("-T"),
    Arg("-o"), Arg("ServerAliveInterval=60"),
    Arg("-o"), Arg("ServerAliveCountMax=3"),
    Arg("-o"), Arg("ExitOnForwardFailure=yes"),
    Arg("-o"), Arg("StrictHostKeyChecking=accept-new"),
    Arg("-o"), Arg("ControlMaster=no"),
    Arg("-o"), Arg("ControlPath=none")>>

\* process.go 289-291: the tunnel's extra arguments
ExtraArgsOf(t) == [k \in 1..Len(t.ExtraArgs) |-> Arg(t.ExtraArgs[k])]

\* process.go 245-302 buildSSHArgs
buildSSHArgs(t, debug) ==
  ForwardArgs(t) \o StabilityArgs \o ExtraArgsOf(t)
    \o (IF debug THEN <<Arg("-v")>> ELSE <<>>) \o <<Arg(t.SSHHost)>>

\* a caller applies Validate to a tunnel
ValidateCall ==
  /\ lib.op = "input"
  /\ lib' = [lib EXCEPT !.op = "Validate", !.ret = Validate(lib.arg)]
  /\ UNCHANGED <<tunnels, processes, call, pmon, tmon, statusChanges, ledger, asyncSaves,
                 os, owner, sigs, sent, configFile, invalid, consumer, boot, restarts,
                 bulk, batch, out>>

\* process.go 92-97: Connect builds the arguments of a tunnel Validate has
\* accepted, with the debug flag of the ProcessManager
ConnectBuildArgs ==
  /\ lib.op = "input"
  /\ Validate(lib.arg) = "nil"
  /\ lib' = [op |-> "buildSSHArgs", arg |-> Validated(lib.arg), debug |-> lib.debug,
             ret |-> buildSSHArgs(Validated(lib.arg), lib.debug)]
  /\ UNCHANGED <<tunnels, processes, call, pmon, tmon, statusChanges, ledger, asyncSaves,
                 os, owner, sigs, sent, configFile, invalid, consumer, boot, restarts,
                 bulk, batch, out>>

\* ------------------------------------------------- saveTunnels, loadTunnels
\* manager.go 567-577 saveTunnels: the store.TunnelConfig written for a tunnel
\* (store.go 9-19); json leaves an empty profile and empty options out and
\* reads them back as "" and nil
ToTunnelConfig(t) ==
  [ID |-> t.ID, Name |-> t.Name, Host |-> t.SSHHost, LocalPort |-> t.LocalPort,
   RemotePort |-> t.RemotePort, Mode |-> t.Type, Options |-> t.ExtraArgs,
   Profile |-> t.Profile, AutoConnect |-> t.AutoConnect]

\* manager.go 520-551 loadTunnels: the Tunnel built from a TunnelConfig
FromTunnelConfig(tc) ==
  LET mode == IF tc.Mode = "forward" THEN "local"
              ELSE IF tc.Mode = "reverse" THEN "remote" ELSE tc.Mode
  IN [ID |-> tc.ID, Name |-> tc.Name, SSHHost |-> tc.Host, LocalPort |-> tc.LocalPort,
      RemotePort |-> tc.RemotePort, Type |-> mode, ExtraArgs |-> tc.Options,
      Profile |-> IF tc.Profile = "" THEN "default" ELSE tc.Profile,
      AutoConnect |-> tc.AutoConnect, LocalHost |-> "0.0.0.0",
      RemoteHost |-> IF mode = LocalForward THEN "127.0.0.1" ELSE ""]

\* the tunnel the form builds from a configuration: an id, a profile and the
\* auto-connect flag with it (modals.go 368-377)
Tagged(t, id, profile, auto) ==
  [ID |-> id, Name |-> t.Name, SSHHost |-> t.SSHHost, LocalPort |-> t.LocalPort,
   RemotePort |-> t.RemotePort, Type |-> t.Type, ExtraArgs |-> t.ExtraArgs,
   Profile |-> profile, AutoConnect |-> auto, LocalHost |-> t.LocalHost,
   RemoteHost |-> t.RemoteHost]

\* manager.go 112, 126 and 512-555: AddTunnel (or UpdateTunnel) accepts the
\* tunnel and saves the specs; the next NewTunnelManager loads them
ConfigRoundTrip ==
  /\ lib.op = "input"
  /\ Validate(lib.arg) = "nil"
  /\ \E id \in Ids, profile \in {"default", "work"} :
       LET t == Tagged(Validated(lib.arg), id, profile, lib.debug)
       IN lib' = [op |-> "roundtrip", arg |-> t, debug |-> FALSE,
                  ret |-> FromTunnelConfig(ToTunnelConfig(t))]
  /\ UNCHANGED <<tunnels, processes, call, pmon, tmon, statusChanges, ledger, asyncSaves,
                 os, owner, sigs, sent, configFile, invalid, consumer, boot, restarts,
                 bulk, batch, out>>

\* ------------------------------------------------------------------ Clone
\* A Tunnel in memory: mem.t is the struct the registry's map points to,
\* mem.c the struct a read returned; ExtraArgs is a slice header (the array it
\* points to, its length), StartedAt a pointer; mem.tArgs, mem.cArgs are the
\* arrays and mem.tAt, mem.cAt the time values allocated for the two structs.

\* a slice over the array at ptr holding elems; the slice of no element is nil
SliceOf(ptr, elems) ==
  IF Len(elems) > 0 THEN [ptr |-> ptr, len |-> Len(elems)] ELSE [ptr |-> "nil", len |-> 0]

\* tunnel.go 40-61: the zero value of the struct
NilTunnel ==
  [Name |-> "", Type |-> "", AutoConnect |-> FALSE, Profile |-> "", Status |-> "", PID |-> 0,
   LastError |-> "", ExtraArgs |-> SliceOf("nil", <<>>), StartedAt |-> "nil"]

\* the tunnels a registry stores: stopped, or running with a pid and a start time
StoredTunnels ==
  {[Name |-> "web", Type |-> ty, AutoConnect |-> ac, Profile |-> pr,
    Status |-> IF run THEN "running" ELSE "stopped", PID |-> IF run THEN 1 ELSE 0,
    LastError |-> "", ExtraArgs |-> ex, StartedAt |-> IF run THEN <<now>> ELSE <<>>] :
     ty \in {LocalForward, RemoteForward}, ac \in BOOLEAN, pr \in {"", "work"},
     run \in BOOLEAN, ex \in {<<>>, <<"-p", "2222">>}, now \in Clock}

\* the array a slice header points to, the value a pointer points to
ArrayAt(mem, ptr) == IF ptr = "tArgs" THEN mem.tArgs ELSE IF ptr = "cArgs" THEN mem.cArgs ELSE <<>>
TimeAt(mem, ptr) == IF ptr = "tAt" THEN mem.tAt ELSE IF ptr = "cAt" THEN mem.cAt ELSE <<>>

\* what a struct of mem says: its fields, the elements of its slice, the
\* value of its start time
Value(mem, o) ==
  [o EXCEPT !.ExtraArgs = SubSeq(ArrayAt(mem, o.ExtraArgs.ptr), 1, o.ExtraArgs.len),
            !.StartedAt = TimeAt(mem, o.StartedAt)]

\* a Clone that copies the slice header and the pointer
CloneShallow(mem) ==
  [mem EXCEPT !.c = [mem.t EXCEPT !.Profile = ""]]

\* tunnel.go 194-224 Clone: a new struct with the fields of 198-211 (Profile
\* is not among them), a new array when the slice has elements (213-216), a
\* new time value when the pointer is not nil (218-221)
Clone(mem) ==
  [mem EXCEPT !.c = [mem.t EXCEPT !.Profile = "",
                                  !.ExtraArgs = SliceOf("cArgs", ArrayAt(mem, mem.t.ExtraArgs.ptr)),
                                  !.StartedAt = IF mem.t.StartedAt # "nil" THEN "cAt" ELSE "nil"],
              !.cArgs = IF mem.t.ExtraArgs.len > 0 THEN ArrayAt(mem, mem.t.ExtraArgs.ptr) ELSE <<>>,
              !.cAt = IF mem.t.StartedAt # "nil" THEN TimeAt(mem, mem.t.StartedAt) ELSE <<>>]

\* manager.go 99-108 GetTunnel (GetTunnels 87 and GetTunnelsByProfile 380
\* return t.Clone() of each tunnel in the same way)
GetTunnel ==
  /\ lib.op = "stored"
  /\ lib' = [op |-> "read", mem |-> Clone(lib.mem)]
  /\ UNCHANGED <<tunnels, processes, call, pmon, tmon, statusChanges, ledger, asyncSaves,
                 os, owner, sigs, sent, configFile, invalid, consumer, boot, restarts,
                 bulk, batch, out>>

\* a store through a slice header or a pointer of mem
StoreElem(mem, ptr, k, v) ==
  IF ptr = "tArgs" THEN [mem EXCEPT !.tArgs[k] = v]
  ELSE IF ptr = "cArgs" THEN [mem EXCEPT !.cArgs[k] = v] ELSE mem
StoreTime(mem, ptr, v) ==
  IF ptr = "tAt" THEN [mem EXCEPT !.tAt = <<v>>]
  ELSE IF ptr = "cAt" THEN [mem EXCEPT !.cAt = <<v>>] ELSE mem

\* the caller writes to the tunnel the read returned: a field (as
\* handlers.go 295, 330-335 do), an element of its ExtraArgs, the time its
\* StartedAt points to, or the slice and the pointer themselves
CallerWrites ==
  /\ lib.op \in {"read", "written"}
  /\ \E m \in
        {[lib.mem EXCEPT !.c.AutoConnect = ~lib.mem.c.AutoConnect],
         [lib.mem EXCEPT !.c.Type = IF lib.mem.c.Type = LocalForward
                                      THEN RemoteForward ELSE LocalForward],
         [lib.mem EXCEPT !.c.Status = "error", !.c.LastError = "edited"],
         [lib.mem EXCEPT !.c.PID = 0],
         [lib.mem EXCEPT !.c.ExtraArgs = SliceOf("nil", <<>>)],
         [lib.mem EXCEPT !.c.StartedAt = "nil"]}
        \cup {StoreElem(lib.mem, lib.mem.c.ExtraArgs.ptr, k, "-v") : k \in 1..lib.mem.c.ExtraArgs.len}
        \cup {StoreTime(lib.mem, lib.mem.c.StartedAt, 0)} :
       lib' = [op |-> "written", mem |-> m]
  /\ UNCHANGED <<tunnels, processes, call, pmon, tmon, statusChanges, ledger, asyncSaves,
                 os, owner, sigs, sent, configFile, invalid, consumer, boot, restarts,
                 bulk, batch, out>>

\* ---------------------------------------------------- the store's clients
\* store.go 127-173: a client of the store calls LoadPids and keeps the map
StoreLoad(c) ==
  /\ KeepsUp
  /\ boot.pc = "done"
  /\ call[c].pc = "idle"
  /\ CanLoad
  /\ call' = [call EXCEPT ![c] = [IdleCall EXCEPT !.pc = "resave", !.op = "roundtrip",
                                                 !.snap = LoadPidsResult]]
  /\ asyncSaves' = LoadPidsAsync(Reader)
  /\ NoReturn /\ NoSignal
  /\ UNCHANGED <<registry, handles, tmon, statusChanges, ledger, ostable, lifecycle>>

\* store.go 176-214: the client passes the map it was given to SavePids
StoreSave(c) ==
  /\ KeepsUp
  /\ call[c].pc = "resave"
  /\ ledger' = call[c].snap
  /\ call' = [call EXCEPT ![c] = IdleCall]
  /\ out' = Out(c, "roundtrip", "all", "ok")
  /\ NoSignal
  /\ UNCHANGED <<registry, handles, tmon, statusChanges, asyncSaves, ostable, lifecycle>>

\* ----------------------------------------------------- StartProfileTunnels
\* the order GetTunnelsByProfile sorts its result in (the names are the ids)
ByName == <<"a", "b">>

\* manager.go 372-390 GetTunnelsByProfile: clones of the stored tunnels whose
\* Profile is the one asked for (the ids members), sorted by name
GetTunnelsByProfile(members) ==
  LET pick(i) == i \in members /\ tunnels[i] # NoTunnel
      ids == SelectSeq(ByName, pick)
  IN [k \in 1..Len(ids) |-> [id |-> ids[k], Status |-> tunnels[ids[k]].Status]]

\* manager.go 394-395
StartProfileBegin(c, members) ==
  /\ KeepsUp
  /\ MuFree
  /\ boot.pc = "done"
  /\ batch.pc = "idle"
  /\ call[c].pc = "idle"
  /\ batch' = [IdleBatch EXCEPT !.pc = "loop", !.by = c, !.i = 1,
                                !.list = GetTunnelsByProfile(members)]
  /\ NoReturn /\ NoSignal
  /\ UNCHANGED <<registry, handles, call, tmon, statusChanges, ledger, asyncSaves, ostable,
                 boot, restarts, consumer, bulk, lib>>

\* manager.go 397-398: a tunnel listed as Running is passed over
StartProfileSkip(c) ==
  /\ KeepsUp
  /\ batch.pc = "loop" /\ batch.by = c
  /\ call[c].pc = "idle"
  /\ batch.i <= Len(batch.list)
  /\ batch.list[batch.i].Status = StatusRunning
  /\ batch' = [batch EXCEPT !.i = @ + 1]
  /\ NoReturn /\ NoSignal
  /\ UNCHANGED <<registry, handles, call, tmon, statusChanges, ledger, asyncSaves, ostable,
                 boot, restarts, consumer, bulk, lib>>

\* manager.go 398-399: tm.StartTunnel(tunnel.ID) for a tunnel not listed as Running
StartProfileCall(c) ==
  /\ batch.pc = "loop" /\ batch.by = c
  /\ batch.i <= Len(batch.list)
  /\ batch.list[batch.i].Status # StatusRunning
  /\ StartTunnelBegin(c, batch.list[batch.i].id)

\* manager.go 412-415: nil, or the error that lists the failed tunnels
StartProfileResult(failed) == IF failed = {} THEN "ok" ELSE "failed_to_start"

\* manager.go 412-415: the loop is over
StartProfileReturn(c) ==
  /\ KeepsUp
  /\ batch.pc = "loop" /\ batch.by = c
  /\ call[c].pc = "idle"
  /\ batch.i > Len(batch.list)
  /\ batch' = [batch EXCEPT !.pc = "idle"]
  /\ out' = Out(c, "start_profile", "all", StartProfileResult(batch.failed))
  /\ NoSignal
  /\ UNCHANGED <<registry, handles, call, tmon, statusChanges, ledger, asyncSaves, ostable,
                 boot, restarts, consumer, bulk, lib>>

\* StartTunnel once begun
StartProgress(c) ==
  \/ StartTunnelConnect(c)
  \/ StartTunnelError(c)
  \/ StartTunnelErrorNotify(c)
  \/ StartTunnelRunning(c)
  \/ StartTunnelAddPidLoad(c)
  \/ StartTunnelFinish(c)

StartProfileSteps(c) ==
  \/ \E members \in SUBSET Ids : StartProfileBegin(c, members)
  \/ StartProfileSkip(c)
  \/ StartProfileCall(c)
  \/ StartProgress(c)
  \/ StartProfileReturn(c)

\* ------------------------------------------------- ProcessManager.Cleanup
\* process.go 398-403: the ids of the handles tracked now (seen: the processes
\* those handles are of); 408-423: one goroutine per id
CleanupBegin ==
  /\ KeepsUp
  /\ boot.pc = "done"
  /\ bulk.pc = "idle"
  /\ LET tunnelIDs == {i \in Ids : processes[i] # 0}
     IN bulk' = [IdleBulk EXCEPT !.pc = "running", !.ids = tunnelIDs, !.seen = processes,
                                 !.w = [i \in Ids |-> IF i \in tunnelIDs THEN "lookup" ELSE "none"]]
  /\ NoReturn /\ NoSignal
  /\ UNCHANGED <<registry, handles, call, tmon, statusChanges, ledger, asyncSaves, ostable,
                 boot, restarts, consumer, batch, lib>>

\* process.go 413-417: the goroutine looks the handle up again and calls
\* Disconnect(tunnelID, info.PID) only when it is still there
CleanupLookup(id) ==
  /\ KeepsUp
  /\ bulk.w[id] = "lookup"
  /\ bulk' = IF processes[id] = 0
               THEN [bulk EXCEPT !.w[id] = "done"]
               ELSE [bulk EXCEPT !.w[id] = "disconnect", !.pid[id] = processes[id]]
  /\ NoReturn /\ NoSignal
  /\ UNCHANGED <<registry, handles, call, tmon, statusChanges, ledger, asyncSaves, ostable,
                 boot, restarts, consumer, batch, lib>>

\* process.go 418-420, 164-193: Disconnect as the goroutine runs it: without
\* a handle SIGTERM to the pid, with one SIGTERM to its group; an error when
\* the signal cannot be delivered goes to errChan
CleanupDisconnect(id) ==
  /\ KeepsUp
  /\ bulk.w[id] = "disconnect"
  /\ LET p == IF processes[id] = 0 THEN bulk.pid[id] ELSE processes[id]
         target == IF processes[id] = 0 THEN "pid" ELSE "group"
     IN IF isProcessRunning(p)
          THEN /\ sigs' = Deliver(p, "TERM", target)
               /\ sent' = {<<p, "TERM", target>>}
               /\ bulk' = [bulk EXCEPT !.w[id] = IF processes[id] = 0 THEN "done" ELSE "wait",
                                       !.pid[id] = p]
          ELSE /\ sigs' = sigs
               /\ sent' = {}
               /\ bulk' = [bulk EXCEPT !.w[id] = "done", !.errs = @ \cup {id}]
  /\ NoReturn
  /\ UNCHANGED <<registry, handles, call, tmon, statusChanges, ledger, asyncSaves, os, owner,
                 boot, restarts, consumer, batch, lib>>

\* process.go 195-219: the goroutine's Disconnect waits for the exit up to the
\* grace window, else kills; then delete(pm.processes, id)
CleanupWait(id) ==
  /\ KeepsUp
  /\ bulk.w[id] = "wait"
  /\ \/ /\ os[bulk.pid[id]] = "dead"
        /\ sent' = {}
        /\ UNCHANGED <<os, sigs>>
     \/ /\ os[bulk.pid[id]] = "alive"
        /\ sent' = {GraceKill(bulk.pid[id])}
        /\ Dead(bulk.pid[id])
  /\ processes' = [processes EXCEPT ![id] = 0]
  /\ bulk' = [bulk EXCEPT !.w[id] = "done"]
  /\ NoReturn
  /\ UNCHANGED <<registry, pmon, call, tmon, statusChanges, ledger, asyncSaves, owner,
                 boot, restarts, consumer, batch, lib>>

\* the caller's context reaches its deadline
CleanupDeadline ==
  /\ KeepsUp
  /\ bulk.pc = "running"
  /\ ~bulk.expired
  /\ bulk' = [bulk EXCEPT !.expired = TRUE]
  /\ NoReturn /\ NoSignal
  /\ UNCHANGED <<registry, handles, call, tmon, statusChanges, ledger, asyncSaves, ostable,
                 boot, restarts, consumer, batch, lib>>

\* process.go 426-430: wg.Wait() has returned, done is closed
CleanupAllDone == \A i \in bulk.ids : bulk.w[i] = "done"

\* process.go 440-451: the errors collected from errChan
CleanupResult(errs) == IF errs = {} THEN "ok" ELSE "cleanup_errors"

\* process.go 432-451: the select on done and ctx.Done() (either when both are
\* ready), then the result; after the deadline the goroutines go on
CleanupReturn ==
  /\ KeepsUp
  /\ bulk.pc = "running"
  /\ \/ /\ CleanupAllDone
        /\ out' = Out("shutdown", "cleanup", "all", CleanupResult(bulk.errs))
     \/ /\ bulk.expired
        /\ out' = Out("shutdown", "cleanup", "all", "deadline")
  /\ bulk' = [bulk EXCEPT !.pc = "returned"]
  /\ NoSignal
  /\ UNCHANGED <<registry, handles, call, tmon, statusChanges, ledger, asyncSaves, ostable,
                 boot, restarts, consumer, batch, lib>>

CleanupSteps ==
  \/ CleanupBegin
  \/ \E id \in Ids : CleanupLookup(id)
  \/ \E id \in Ids : CleanupDisconnect(id)
  \/ \E id \in Ids : CleanupWait(id)
  \/ CleanupDeadline
  \/ CleanupReturn

\* --------------------------------------------------------- StopAllTunnels
\* manager.go 343: StopAllTunnels calls Cleanup; 351-352: whatever Cleanup
\* returned, tm.mu.Lock() and the range over tm.tunnels
StopAllLock ==
  /\ KeepsUp
  /\ MuFree
  /\ bulk.pc = "returned"
  /\ bulk' = [bulk EXCEPT !.pc = "sweep", !.mu = TRUE,
                          !.todo = {i \in Ids : tunnels[i] # NoTunnel}]
  /\ NoReturn /\ NoSignal
  /\ UNCHANGED <<registry, handles, call, tmon, statusChanges, ledger, asyncSaves, ostable,
                 boot, restarts, consumer, batch, lib>>

\* manager.go 353-358: a tunnel that is Running becomes Stopped, its pid and
\* start time are cleared; any other tunnel is passed over
StopAllMark(id) ==
  /\ KeepsUp
  /\ bulk.pc = "sweep"
  /\ id \in bulk.todo
  /\ IF tunnels[id].Status = StatusRunning
       THEN /\ tunnels' = [tunnels EXCEPT ![id] = StopCleaned(tunnels[id], "nil")]
            /\ bulk' = [bulk EXCEPT !.pc = "sweep_load", !.cur = id]
       ELSE /\ bulk' = [bulk EXCEPT !.todo = @ \ {id}]
            /\ UNCHANGED tunnels
  /\ NoReturn /\ NoSignal
  /\ UNCHANGED <<specs, handles, call, tmon, statusChanges, ledger, asyncSaves, ostable,
                 boot, restarts, consumer, batch, lib>>

\* manager.go 361, store.go RemovePid 231-237: with tm.mu held, LoadPids and
\* delete from the loaded data
StopAllRemovePidLoad ==
  /\ KeepsUp
  /\ bulk.pc = "sweep_load"
  /\ CanLoad
  /\ bulk' = [bulk EXCEPT !.pc = "sweep_save",
                          !.snap = [LoadPidsResult EXCEPT ![bulk.cur] = NoRec]]
  /\ asyncSaves' = LoadPidsAsync(Sweeper)
  /\ NoReturn /\ NoSignal
  /\ UNCHANGED <<registry, handles, call, tmon, statusChanges, ledger, ostable,
                 boot, restarts, consumer, batch, lib>>

\* store.go RemovePid 239 (SavePids) and manager.go 364: the Stopped event
StopAllRemovePidSave ==
  /\ KeepsUp
  /\ bulk.pc = "sweep_save"
  /\ ledger' = bulk.snap
  /\ asyncSaves' = Shared(Sweeper, bulk.snap)
  /\ statusChanges' = notifyStatusChange(statusChanges, bulk.cur, StatusRunning, StatusStopped, "nil")
  /\ bulk' = [bulk EXCEPT !.pc = "sweep", !.todo = @ \ {bulk.cur}, !.cur = "none", !.snap = <<>>]
  /\ NoReturn /\ NoSignal
  /\ UNCHANGED <<registry, handles, call, tmon, ostable, boot, restarts, consumer, batch, lib>>

\* manager.go 367-369: the range is over, tm.mu.Unlock(), return nil
StopAllReturn ==
  /\ KeepsUp
  /\ bulk.pc = "sweep"
  /\ bulk.todo = {}
  /\ bulk' = [bulk EXCEPT !.pc = "stopped", !.mu = FALSE]
  /\ out' = Out("shutdown", "stop_all", "all", "ok")
  /\ NoSignal
  /\ UNCHANGED <<registry, handles, call, tmon, statusChanges, ledger, asyncSaves, ostable,
                 boot, restarts, consumer, batch, lib>>

StopAllSteps ==
  \/ CleanupSteps
  \/ StopAllLock
  \/ \E id \in Ids : StopAllMark(id)
  \/ StopAllRemovePidLoad
  \/ StopAllRemovePidSave
  \/ StopAllReturn

\* ------------------------------------------------- configuration mutations
\* calls that hold the *Tunnel stored under id keep the old object when the map
\* entry is replaced or deleted
Detach(id) ==
  [c \in Callers |-> IF call[c].pc # "idle" /\ call[c].id = id
                       THEN [call[c] EXCEPT !.detached = TRUE] ELSE call[c]]

\* the Tunnel objects a caller passes to AddTunnel: NewTunnel's, the edit form's
AddArgs == {NewTunnel, FormTunnel}

\* the Tunnel objects a caller passes to UpdateTunnel: the edit form's literal,
\* a Clone() of the stored tunnel, a Clone() taken when it was first listed
UpdateArgs(id) == {FormTunnel, tunnels[id], NewTunnel}

\* manager.go 149, 175: the status that makes UpdateTunnel and DeleteTunnel refuse
ConfigBusy(status) == status = StatusRunning

\* manager.go 126-129, 156-159, 182-185: saveTunnels() has failed, the map
\* entry is put back as it was before the call
AddRollback(ts, id) == [ts EXCEPT ![id] = NoTunnel]
\* an update that is not rolled back
UpdateKept(ts, id, existing) == ts
UpdateRollback(ts, id, existing) == [ts EXCEPT ![id] = existing]
DeleteRollback(ts, id, tunnel) == [ts EXCEPT ![id] = tunnel]

\* manager.go 111-132; the caller's object t may fail Validate(), and the
\* rewrite of config.json may fail
AddTunnel(c, id, t) ==
  /\ KeepsUp
  /\ MuFree
  /\ boot.pc = "done"
  /\ call[c].pc = "idle"
  /\ \/ \* tunnel.Validate() fails
        /\ out' = Out(c, "add", id, "invalid")
        /\ UNCHANGED <<tunnels, specs, call>>
     \/ \* the object is valid
        IF tunnels[id] # NoTunnel
          THEN /\ out' = Out(c, "add", id, "exists")
               /\ UNCHANGED <<tunnels, specs, call>>
          ELSE \/ \* saveTunnels() succeeds
                  /\ tunnels' = [tunnels EXCEPT ![id] = t]
                  /\ configFile' = configFile \cup {id}
                  /\ invalid' = invalid \ {id}
                  /\ call' = Detach(id)
                  /\ out' = Out(c, "add", id, "ok")
               \/ \* saveTunnels() fails
                  /\ tunnels' = AddRollback([tunnels EXCEPT ![id] = t], id)
                  /\ out' = Out(c, "add", id, "save_failed")
                  /\ UNCHANGED <<specs, call>>
  /\ NoSignal
  /\ UNCHANGED <<handles, tmon, statusChanges, ledger, asyncSaves, ostable, lifecycle>>

\* manager.go 135-162
UpdateTunnel(c, id, t) ==
  /\ KeepsUp
  /\ MuFree
  /\ boot.pc = "done"
  /\ call[c].pc = "idle"
  /\ \/ \* tunnel.Validate() fails
        /\ out' = Out(c, "update", id, "invalid")
        /\ UNCHANGED <<tunnels, specs, call>>
     \/ \* the object is valid
        IF tunnels[id] = NoTunnel
          THEN /\ out' = Out(c, "update", id, "not_found")
               /\ UNCHANGED <<tunnels, specs, call>>
          ELSE IF ConfigBusy(tunnels[id].Status)
            THEN /\ out' = Out(c, "update", id, "busy")
                 /\ UNCHANGED <<tunnels, specs, call>>
            ELSE \/ \* saveTunnels() succeeds
                    /\ tunnels' = [tunnels EXCEPT ![id] = t]
                    /\ invalid' = invalid \ {id}
                    /\ call' = Detach(id)
                    /\ out' = Out(c, "update", id, "ok")
                    /\ UNCHANGED configFile
                 \/ \* saveTunnels() fails
                    /\ tunnels' = UpdateRollback([tunnels EXCEPT ![id] = t], id, tunnels[id])
                    /\ out' = Out(c, "update", id, "save_failed")
                    /\ UNCHANGED <<specs, call>>
  /\ NoSignal
  /\ UNCHANGED <<handles, tmon, statusChanges, ledger, asyncSaves, ostable, lifecycle>>

\* manager.go 165-188
DeleteTunnel(c, id) ==
  /\ KeepsUp
  /\ MuFree
  /\ boot.pc = "done"
  /\ call[c].pc = "idle"
  /\ IF tunnels[id] = NoTunnel
       THEN /\ out' = Out(c, "delete", id, "not_found")
            /\ UNCHANGED <<tunnels, specs, call>>
       ELSE IF ConfigBusy(tunnels[id].Status)
         THEN /\ out' = Out(c, "delete", id, "busy")
              /\ UNCHANGED <<tunnels, specs, call>>
         ELSE \/ \* saveTunnels() succeeds
                 /\ tunnels' = [tunnels EXCEPT ![id] = NoTunnel]
                 /\ configFile' = configFile \ {id}
                 /\ invalid' = invalid \ {id}
                 /\ call' = Detach(id)
                 /\ out' = Out(c, "delete", id, "ok")
              \/ \* saveTunnels() fails
                 /\ tunnels' = DeleteRollback([tunnels EXCEPT ![id] = NoTunnel], id, tunnels[id])
                 /\ out' = Out(c, "delete", id, "save_failed")
                 /\ UNCHANGED <<specs, call>>
  /\ NoSignal
  /\ UNCHANGED <<handles, tmon, statusChanges, ledger, asyncSaves, ostable, lifecycle>>

\* ------------------------------------- supervisor restart, NewTunnelManager
\* manager.go 512-555 loadTunnels: every spec of config.json as a stopped tunnel
loadTunnels(cfg) == [i \in Ids |-> IF i \in cfg THEN NewTunnel ELSE NoTunnel]

\* The supervisor process ends between registry calls (handlers.go 484-487:
\* the children keep running) and is started again: every goroutine and the
\* in-memory tables are gone, the files and the processes stay.  The operator
\* may have removed a spec from config.json meanwhile.  manager.go 55-72
SupervisorRestart ==
  /\ KeepsUp
  /\ restarts < MaxRestarts
  /\ boot.pc = "done"
  /\ \A c \in Callers : call[c].pc = "idle"
  /\ bulk.pc = "idle"
  /\ batch.pc = "idle"
  /\ restarts' = restarts + 1
  /\ \E cfg \in {configFile} \cup {configFile \ {i} : i \in configFile} :
       /\ configFile' = cfg
       /\ invalid' = invalid \cap cfg
       /\ tunnels' = loadTunnels(cfg)
  /\ processes' = [i \in Ids |-> 0]
  /\ pmon' = [p \in Pids |-> "none"]
  /\ tmon' = [p \in Pids |-> NoMon]
  /\ statusChanges' = <<>>
  /\ asyncSaves' = {}
  /\ boot' = [BootDone EXCEPT !.pc = "load"]
  /\ NoReturn /\ NoSignal
  /\ UNCHANGED <<call, ledger, ostable, consumer, bulk, batch, lib>>

\* manager.go 605: pids, err := tm.pidStore.LoadPids()
restoreLoadPids ==
  /\ KeepsUp
  /\ boot.pc = "load"
  /\ CanLoad
  /\ boot' = [boot EXCEPT !.pc = "loop", !.pids = LoadPidsResult,
                          !.todo = {i \in Ids : LoadPidsResult[i] # NoRec}]
  /\ asyncSaves' = LoadPidsAsync(Reader)
  /\ NoReturn /\ NoSignal
  /\ UNCHANGED <<registry, handles, call, tmon, statusChanges, ledger, ostable, restarts, consumer, bulk, batch, lib>>

\* manager.go 631-639: the runtime state restored from a ledger entry
Restored(t, rec) == [t EXCEPT !.Status = StatusRunning, !.PID = rec.PID,
                              !.StartedAt = ParseRFC3339(rec.Started)]

\* manager.go 610-641: one iteration of the loop over the loaded entries
restoreEntry(id) ==
  /\ KeepsUp
  /\ boot.pc = "loop"
  /\ id \in boot.todo
  /\ IF tunnels[id] # NoTunnel /\ isProcessRunning(boot.pids[id].PID)
       THEN /\ tunnels' = [tunnels EXCEPT ![id] = Restored(@, boot.pids[id])]
            /\ boot' = [boot EXCEPT !.todo = @ \ {id}]
       ELSE /\ boot' = [boot EXCEPT !.pc = "rm_load", !.cur = id, !.todo = @ \ {id}]
            /\ UNCHANGED tunnels
  /\ NoReturn /\ NoSignal
  /\ UNCHANGED <<specs, handles, call, tmon, statusChanges, ledger, asyncSaves, ostable, restarts, consumer, bulk, batch, lib>>

\* manager.go 614/628, store.go RemovePid 231-237: LoadPids and delete from the loaded data
restoreRemovePidLoad ==
  /\ KeepsUp
  /\ boot.pc = "rm_load"
  /\ CanLoad
  /\ boot' = [boot EXCEPT !.pc = "rm_save", !.snap = [LoadPidsResult EXCEPT ![boot.cur] = NoRec]]
  /\ asyncSaves' = LoadPidsAsync(Restorer)
  /\ NoReturn /\ NoSignal
  /\ UNCHANGED <<registry, handles, call, tmon, statusChanges, ledger, ostable, restarts, consumer, bulk, batch, lib>>

\* store.go RemovePid 239: SavePids
restoreRemovePidSave ==
  /\ KeepsUp
  /\ boot.pc = "rm_save"
  /\ ledger' = boot.snap
  /\ asyncSaves' = Shared(Restorer, boot.snap)
  /\ boot' = [boot EXCEPT !.pc = "loop", !.cur = "none", !.snap = <<>>]
  /\ NoReturn /\ NoSignal
  /\ UNCHANGED <<registry, handles, call, tmon, statusChanges, ostable, restarts, consumer, bulk, batch, lib>>

\* manager.go 642, 77: the loop is over, NewTunnelManager returns
restoreDone ==
  /\ KeepsUp
  /\ boot.pc = "loop"
  /\ boot.todo = {}
  /\ boot' = BootDone
  /\ NoReturn /\ NoSignal
  /\ UNCHANGED <<registry, handles, call, tmon, statusChanges, ledger, asyncSaves, ostable, restarts, consumer, bulk, batch, lib>>

\* ------------------------------------------------------------ specification
StartSteps(c) ==
  \/ \E id \in Ids : StartTunnelBegin(c, id)
  \/ StartTunnelConnect(c)
  \/ StartTunnelError(c)
  \/ StartTunnelErrorNotify(c)
  \/ StartTunnelRunning(c)
  \/ StartTunnelAddPidLoad(c)
  \/ StartTunnelFinish(c)

StopSteps(c) ==
  \/ \E id \in Ids : StopTunnelBegin(c, id)
  \/ StopTunnelDisconnect(c)
  \/ StopTunnelWait(c)
  \/ StopTunnelCleanup(c)
  \/ StopTunnelRemovePidLoad(c)
  \/ StopTunnelFinish(c)

\* StopTunnel after its first lock region
StopProgress(c) ==
  \/ StopTunnelDisconnect(c)
  \/ StopTunnelWait(c)
  \/ StopTunnelCleanup(c)
  \/ StopTunnelRemovePidLoad(c)
  \/ StopTunnelFinish(c)

ConfigureOne(c, id) ==
  \/ \E t \in AddArgs : AddTunnel(c, id, t)
  \/ \E t \in UpdateArgs(id) : UpdateTunnel(c, id, t)
  \/ DeleteTunnel(c, id)

Configure(c) == \E id \in Ids : ConfigureOne(c, id)

Background ==
  \/ \E p \in Pids : ProcessExit(p)
  \/ \E p \in Pids : monitorProcess(p)
  \/ \E p \in Pids : monitorTunnelPoll(p)
  \/ \E p \in Pids : monitorTunnelUpdate(p)
  \/ \E p \in Pids : monitorTunnelRemovePidLoad(p)
  \/ \E p \in Pids : monitorTunnelFinish(p)
  \/ AsyncSavePids

Waiters == Background \/ ConsumeEvent

Construction ==
  \/ SupervisorRestart
  \/ restoreLoadPids
  \/ \E id \in Ids : restoreEntry(id)
  \/ restoreRemovePidLoad
  \/ restoreRemovePidSave
  \/ restoreDone

\* sequential use of one registry: one caller that starts and stops tunnels,
\* the waiters and writers, and restarts of the supervisor
NextSeq == StartSteps("c1") \/ StopSteps("c1") \/ Waiters \/ Construction

SpecSeq == Init /\ [][NextSeq]_vars

\* concurrent starts of one tunnel: two callers (a key press, start-all,
\* auto-connect, the start half of restart) that call StartTunnel
Next == (\E c \in Callers : StartSteps(c)) \/ Waiters

Spec == InitOne /\ [][Next]_vars

\* a caller that starts and stops one tunnel while another caller updates it;
\* the ssh processes may exit on their own, which the supervisor's waiters see
NextUpdate ==
  \/ StartSteps("c1")
  \/ StopSteps("c1")
  \/ \E id \in Ids : \E t \in UpdateArgs(id) : UpdateTunnel("c2", id, t)
  \/ \E p \in Pids : ProcessExit(p)
  \/ \E p \in Pids : monitorProcess(p)
  \/ ConsumeEvent

SpecUpdate == InitOne /\ [][NextUpdate]_vars

\* config.json holds one spec, edited by hand so that it fails validation
InitBad == Constructed({"a"}) /\ invalid = {"a"} /\ consumer = "reading"

\* a caller that starts tunnels while another caller adds, updates and deletes
\* them; the ssh processes spawned meanwhile keep running
NextConfig == StartSteps("c1") \/ Configure("c2") \/ ConsumeEvent

SpecConfig == InitBad /\ [][NextConfig]_vars

\* nobody reads GetStatusChanges()
InitNoConsumer == Constructed({"a"}) /\ invalid = {} /\ consumer = "absent"

\* one caller starts and stops tunnels whose events nobody reads; the ssh
\* processes run until they are stopped
NextQueue == StartSteps("c1") \/ StopSteps("c1")

SpecQueue == InitNoConsumer /\ [][NextQueue]_vars

\* shutdown: a caller has started and stopped tunnels, whose ssh processes may
\* exit on their own, when Cleanup is called once with a deadline
NextCleanup ==
  \/ StartSteps("c1")
  \/ StopSteps("c1")
  \/ \E p \in Pids : ProcessExit(p)
  \/ \E p \in Pids : monitorProcess(p)
  \/ CleanupSteps
  \/ ConsumeEvent

SpecCleanup == Init /\ [][NextCleanup]_vars

\* a caller that starts the tunnels of a profile, again and again, while the
\* ssh processes exit on their own and the waiters see it
NextProfile ==
  \/ StartProfileSteps("c1")
  \/ Background
  \/ ConsumeEvent

SpecProfile == Init /\ [][NextProfile]_vars

\* the entries pids.json may hold: none, or a pid with its start time
PidInfos == {NoRec} \cup {NewPidInfo(p, now) : p \in Pids, now \in Clock}

\* a supervisor constructed over the pids.json an earlier instance left, whose
\* processes are alive or gone
InitLedger ==
  /\ tunnels = [i \in Ids |-> NewTunnel]
  /\ processes = [i \in Ids |-> 0]
  /\ call = [c \in Callers |-> IdleCall]
  /\ pmon = [p \in Pids |-> "none"]
  /\ tmon = [p \in Pids |-> NoMon]
  /\ statusChanges = <<>>
  /\ ledger \in [Ids -> PidInfos]
  /\ asyncSaves = {}
  /\ os \in [Pids -> {"alive", "dead"}]
  /\ owner = [p \in Pids |-> "none"]
  /\ sigs = [p \in Pids |-> {}]
  /\ sent = {}
  /\ configFile = Ids
  /\ invalid = {}
  /\ consumer = "reading"
  /\ boot = BootDone
  /\ restarts = 0
  /\ bulk = IdleBulk
  /\ batch = IdleBatch
  /\ lib = NoLib
  /\ out = NoOut

\* clients that load the ledger and save what they loaded, while processes
\* exit and the writers LoadPids started run
NextLedger ==
  \/ \E c \in Callers : StoreLoad(c)
  \/ \E c \in Callers : StoreSave(c)
  \/ AsyncSavePids
  \/ \E p \in Pids : ProcessExit(p)

SpecLedger == InitLedger /\ [][NextLedger]_vars

\* the functions of the core package applied to every tunnel configuration
\* a supervisor whose tunnels are started, whose processes may exit, that may
\* be constructed again over the ledger of the earlier run, and that is shut
\* down with StopAllTunnels
NextStopAll ==
  \/ StartSteps("c1")
  \/ \E p \in Pids : ProcessExit(p)
  \/ \E p \in Pids : monitorProcess(p)
  \/ Construction
  \/ StopAllSteps
  \/ ConsumeEvent

SpecStopAll == Init /\ [][NextStopAll]_vars

\* one caller starts and stops tunnels whose processes exit when they like or
\* never; a StopTunnel that was called keeps running, the grace window
\* elapses, the events are received and the ledger writers run
NextStop ==
  \/ StartSteps("c1")
  \/ StopSteps("c1")
  \/ \E p \in Pids : ProcessExit(p)
  \/ \E p \in Pids : monitorProcess(p)
  \/ AsyncSavePids
  \/ ConsumeEvent

SpecStop ==
  /\ Init /\ [][NextStop]_vars
  /\ WF_vars(StopProgress("c1")) /\ WF_vars(ConsumeEvent) /\ WF_vars(AsyncSavePids)

\* sequential use of one registry that is constructed again, on a machine
\* that gives the pids of exited processes to other processes
NextReuse ==
  \/ StartSteps("c1")
  \/ StopSteps("c1")
  \/ \E p \in Pids : ProcessExit(p)
  \/ \E p \in Pids : PidReused(p)
  \/ \E p \in Pids : monitorProcess(p)
  \/ AsyncSavePids
  \/ Construction
  \/ ConsumeEvent

SpecReuse == Init /\ [][NextReuse]_vars

\* one caller starts a tunnel again and again while the processes exit and
\* the waiters run; each event is received before the next one is sent
NextOrder == StartSteps("c1") \/ Waiters

SpecOrder == InitOne /\ [][NextOrder]_vars

\* two callers that start different tunnels at the same time, each of them
\* adding its PidInfo to the ledger (manager.go 241), while the ssh processes run
NextPair ==
  \/ StartTunnelBegin("c1", "a")
  \/ StartTunnelBegin("c2", "b")
  \/ \E c \in Callers : StartProgress(c)
  \/ ConsumeEvent

SpecPair == Init /\ [][NextPair]_vars

\* the program at rest, every tunnel of Ids configured, while a function of the
\* core package is applied
AtRest ==
  /\ tunnels = [i \in Ids |-> NewTunnel]
  /\ processes = [i \in Ids |-> 0]
  /\ call = [c \in Callers |-> IdleCall]
  /\ pmon = [p \in Pids |-> "none"]
  /\ tmon = [p \in Pids |-> NoMon]
  /\ statusChanges = <<>>
  /\ ledger = EmptyLedger
  /\ asyncSaves = {}
  /\ os = [p \in Pids |-> "none"]
  /\ owner = [p \in Pids |-> "none"]
  /\ sigs = [p \in Pids |-> {}]
  /\ sent = {}
  /\ configFile = Ids
  /\ invalid = {}
  /\ consumer = "reading"
  /\ boot = BootDone
  /\ restarts = 0
  /\ bulk = IdleBulk
  /\ batch = IdleBatch
  /\ out = NoOut

InitLib ==
  /\ AtRest
  /\ lib \in [op : {"input"}, arg : TunnelConfigs, debug : BOOLEAN, ret : {<<>>}]

NextLib == ValidateCall \/ ConnectBuildArgs

SpecLib == InitLib /\ [][NextLib]_vars

\* the specs AddTunnel accepts, saved and loaded again
NextRoundTrip == ConfigRoundTrip

SpecRoundTrip == InitLib /\ [][NextRoundTrip]_vars

\* a stored tunnel in memory, and a caller that reads it and writes to what
\* the read returned
InitClone ==
  /\ AtRest
  /\ \E t \in StoredTunnels :
       lib = [op |-> "stored",
              mem |-> [t |-> [t EXCEPT !.ExtraArgs = SliceOf("tArgs", t.ExtraArgs),
                                       !.StartedAt = IF t.StartedAt = <<>> THEN "nil" ELSE "tAt"],
                       c |-> NilTunnel,
                       tArgs |-> t.ExtraArgs, cArgs |-> <<>>,
                       tAt |-> t.StartedAt, cAt |-> <<>>]]

NextClone == GetTunnel \/ CallerWrites

SpecClone == InitClone /\ [][NextClone]_vars

\* ==================================================================== claims
\* the processes spawned for the tunnel id that are running
LiveFor(id) == {p \in Pids : os[p] = "alive" /\ owner[p] = id}

\* C1: a start(id) issued right after a start(id) of the same caller has
\* returned success is refused as already running, spawns no process and
\* leaves at most the one process of the first start running for id.
C1_SecondStartRefused ==
  [][\A id \in Ids :
       (out = Out("c1", "start", id, "ok") /\ StartTunnelBegin("c1", id))
         => /\ out' = Out("c1", "start", id, "already_running")
            /\ UNCHANGED <<os, processes, call>>
            /\ Cardinality(LiveFor(id)) <= 1]_vars

\* C2: a start(id) that arrives while the tunnel is Connecting or Running is
\* refused as already running and starts nothing, whatever the other callers
\* are doing.
C2_StartWhileActiveRefused ==
  [][\A c \in Callers : \A id \in Ids :
       (tunnels[id].Status \in {StatusConnecting, StatusRunning} /\ StartTunnelBegin(c, id))
         => /\ out' = Out(c, "start", id, "already_running")
            /\ UNCHANGED <<os, processes, call>>]_vars

\* the status changes the lifecycle allows
AllowedTransitions ==
  {<<StatusStopped, StatusConnecting>>, <<StatusError, StatusConnecting>>,
   <<StatusConnecting, StatusRunning>>, <<StatusConnecting, StatusError>>,
   <<StatusRunning, StatusStopped>>}

\* C3: every step that changes the status of a tunnel changes it along one
\* of the allowed transitions, and a Running tunnel changes only to Stopped.
C3_OnlyAllowedTransitions ==
  [][\A id \in Ids :
       tunnels'[id].Status # tunnels[id].Status
         => <<tunnels[id].Status, tunnels'[id].Status>> \in AllowedTransitions]_vars

\* C4: a stop(id) issued right after a stop(id) of the same caller has
\* returned success finds the tunnel stopped by the first call (Stopped, pid
\* and start time cleared, no handle to a running process): it returns "not
\* running", sends no signal, and changes neither the registry nor the handle
\* table, the ledger or any process, so it leaves the processes as the first
\* call left them.
C4_SecondStopNotRunning ==
  [][\A id \in Ids :
       (out = Out("c1", "stop", id, "ok") /\ StopTunnelBegin("c1", id))
         => /\ out' = Out("c1", "stop", id, "not_running")
            /\ sent' = {}
            /\ UNCHANGED <<tunnels, configFile, processes, ledger, asyncSaves, os, sigs, call>>
            /\ tunnels[id].Status = StatusStopped
            /\ tunnels[id].PID = 0 /\ tunnels[id].StartedAt = 0
            /\ processes[id] # 0 => os[processes[id]] = "dead"]_vars

\* C4 witness: the first stop of a tunnel has returned success, its process
\* is gone, and the same caller can issue the second stop
C4_Witness ==
  /\ out = Out("c1", "stop", "a", "ok")
  /\ \E p \in Pids : owner[p] = "a" /\ os[p] = "dead"
  /\ ENABLED StopTunnelBegin("c1", "a")

\* a StopTunnel call is inside Disconnect on the path with a tracked handle
InDisconnect(c) ==
  \/ call[c].pc = "stop_disconnect" /\ processes[call[c].id] # 0
  \/ call[c].pc = "stop_wait"

\* C5: Disconnect with a tracked handle sends SIGTERM to the process group
\* first; a SIGKILL it sends goes to the process group, after that SIGTERM
\* and to a process that has not exited.
C5_GracefulThenGroupKill ==
  [][\A c \in Callers :
       (InDisconnect(c) /\ (StopTunnelDisconnect(c) \/ StopTunnelWait(c)))
         => \A s \in sent' :
              /\ s[3] = "group"
              /\ s[2] = "KILL" => (<<"TERM", "group">> \in sigs[s[1]] /\ os[s[1]] = "alive")
              /\ s[2] = "TERM" => call[c].pc = "stop_disconnect"]_vars

\* no waiter has anything to do: every monitorProcess is blocked in Wait() on
\* a running process, every monitorTunnel is in its poll loop with the handle
\* of its tunnel still there
WaitersIdle ==
  \A p \in Pids :
    /\ pmon[p] = "waiting" => os[p] = "alive"
    /\ tmon[p].pc \in {"none", "poll"}
    /\ tmon[p].pc = "poll" => processes[tmon[p].id] # 0

\* no registry operation, waiter step, construction or ledger write is in progress
Quiescent ==
  /\ boot.pc = "done"
  /\ \A c \in Callers : call[c].pc = "idle"
  /\ WaitersIdle
  /\ asyncSaves = {}

\* C6: a Running tunnel whose process has exited, and that nobody stops,
\* eventually becomes Stopped with pid, start time and PidRecord cleared.
\* Stated as the condition this needs at every moment: when the registry
\* is constructed and no call is working on the tunnel, a Running tunnel whose
\* process has exited has a monitorTunnel waiter that will notice it.
C6_ExitIsDetected ==
  \A id \in Ids :
    ( /\ boot.pc = "done"
      /\ tunnels[id].Status = StatusRunning
      /\ tunnels[id].PID \in Pids
      /\ os[tunnels[id].PID] = "dead"
      /\ \A c \in Callers : call[c].id # id )
    => \E p \in Pids : tmon[p].pc # "none" /\ tmon[p].id = id

\* C7: when monitorTunnel fires it sets the tunnel Stopped, clears the runtime
\* fields, deletes the PidRecord and emits the event only if the tunnel is
\* Running at that point; otherwise it leaves status, runtime fields and
\* ledger as they are and emits nothing.
C7_WaiterActsOnlyOnRunning ==
  [][\A p \in Pids :
       /\ (monitorTunnelUpdate(p) /\ tunnels[tmon[p].id] # NoTunnel)
            => IF tunnels[tmon[p].id].Status = StatusRunning
                 THEN tunnels'[tmon[p].id] =
                        [tunnels[tmon[p].id] EXCEPT !.Status = StatusStopped, !.PID = 0, !.StartedAt = 0]
                 ELSE UNCHANGED tunnels
       /\ monitorTunnelFinish(p)
            => IF tmon[p].old = StatusRunning
                 THEN ledger'[tmon[p].id] = NoRec /\ Len(statusChanges') = Len(statusChanges) + 1
                 ELSE UNCHANGED <<ledger, statusChanges>>]_vars

\* C7 amended: when monitorTunnel fires and the tunnel still exists, it sets
\* the tunnel Stopped, clears the runtime fields and emits the event only if
\* the tunnel is Running at that point, and otherwise leaves status and runtime
\* fields as they are and emits nothing; in both cases it rewrites the ledger
\* without the PidRecord of the tunnel.
C7_WaiterAlwaysRemovesRecord ==
  [][\A p \in Pids :
       /\ (monitorTunnelUpdate(p) /\ tunnels[tmon[p].id] # NoTunnel)
            => IF tunnels[tmon[p].id].Status = StatusRunning
                 THEN tunnels'[tmon[p].id] =
                        [tunnels[tmon[p].id] EXCEPT !.Status = StatusStopped, !.PID = 0, !.StartedAt = 0]
                 ELSE UNCHANGED tunnels
       /\ monitorTunnelFinish(p)
            => /\ ledger'[tmon[p].id] = NoRec
               /\ IF tmon[p].old = StatusRunning
                    THEN statusChanges' = Append(statusChanges,
                           [TunnelID |-> tmon[p].id, OldStatus |-> StatusRunning,
                            NewStatus |-> StatusStopped, Error |-> tmon[p].err])
                    ELSE UNCHANGED statusChanges]_vars

\* C7 witness: a monitorTunnel that found its tunnel not Running (and left it
\* so) is about to rewrite a ledger that holds the PidRecord of the tunnel
C7_Witness ==
  \E p \in Pids :
    /\ tmon[p].pc = "save"
    /\ tmon[p].old # StatusRunning
    /\ tunnels[tmon[p].id].Status = tmon[p].old
    /\ ledger[tmon[p].id] # NoRec

\* C8: when the construction of the registry and every ledger write it
\* started are over, the ledger has no entry that names a running process
\* for an id without a spec (and no tunnel is Running for such an id).
C8_OrphanEntryRemoved ==
  (restarts > 0 /\ Quiescent)
    => \A id \in Ids : id \notin configFile =>
         /\ ~isProcessRunning(ledger[id].PID)
         /\ tunnels[id].Status # StatusRunning

\* C9: construction sets a tunnel whose ledger entry names a running process
\* to Running with the persisted pid and start time and keeps the entry, it
\* leaves a tunnel whose entry names a dead process Stopped and deletes the
\* entry; neither the restart nor the construction signals a process.
C9_RestoreStep ==
  [][/\ \A id \in Ids :
          (restoreEntry(id) /\ tunnels[id] # NoTunnel)
            => IF isProcessRunning(boot.pids[id].PID)
                 THEN /\ tunnels'[id].Status = StatusRunning
                      /\ tunnels'[id].PID = boot.pids[id].PID
                      /\ tunnels'[id].StartedAt = ParseRFC3339(boot.pids[id].Started)
                      /\ boot'.pc = "loop"
                 ELSE /\ tunnels'[id] = NewTunnel
                      /\ boot'.pc = "rm_load" /\ boot'.cur = id
     /\ (boot.pc # "done" \/ boot'.pc # "done") => (sent' = {} /\ sigs' = sigs)
     /\ (restoreDone /\ asyncSaves = {})
          => \A id \in Ids :
               tunnels[id] # NoTunnel
                 => \/ /\ tunnels[id].Status = StatusRunning
                       /\ isProcessRunning(tunnels[id].PID)
                            => /\ ledger[id] # NoRec
                               /\ ledger[id].PID = tunnels[id].PID
                               /\ ParseRFC3339(ledger[id].Started) = tunnels[id].StartedAt
                    \/ /\ tunnels[id] = NewTunnel
                       /\ ledger[id] = NoRec]_vars

\* every Running tunnel names a process that is running: no exit is undetected
NoExitPending ==
  \A id \in Ids : tunnels[id].Status = StatusRunning => isProcessRunning(tunnels[id].PID)

\* C10: whenever nothing is in progress (and no exit of a process is still
\* to be detected), the ledger has a PidRecord for id exactly if the tunnel
\* id is Running, and the record names the tunnel's pid.
C10_LedgerMatchesRunning ==
  (Quiescent /\ NoExitPending)
    => \A id \in Ids :
         /\ ledger[id] # NoRec <=> tunnels[id].Status = StatusRunning
         /\ ledger[id] # NoRec => ledger[id].PID = tunnels[id].PID

\* C11: when StartTunnel returns success and the process it spawned is still
\* running, the tunnel is Running with the pid of that process, its start time
\* is set, its last error is cleared, the handle of that process is registered
\* under the id and the ledger has a PidRecord for the id with that pid.
C11_StartSuccessState ==
  [][\A c \in Callers :
       (StartTunnelFinish(c) /\ os[call[c].pid] = "alive")
         => /\ out' = Out(c, "start", call[c].id, "ok")
            /\ call[c].pid # 0
            /\ tunnels'[call[c].id].Status = StatusRunning
            /\ tunnels'[call[c].id].PID = call[c].pid
            /\ tunnels'[call[c].id].StartedAt # 0
            /\ tunnels'[call[c].id].LastError = "nil"
            /\ processes'[call[c].id] = call[c].pid
            /\ ledger'[call[c].id] # NoRec
            /\ ledger'[call[c].id].PID = call[c].pid]_vars

\* C12: when the Connect of a StartTunnel fails, the call registers no handle,
\* spawns nothing and leaves the ledger alone, it sets the tunnel to Error with
\* the cause as its last error, and it returns an error with the tunnel in
\* that state.
C12_SpawnFailure ==
  [][\A c \in Callers :
       /\ (StartTunnelConnect(c) /\ call'[c].pc = "start_error")
            => /\ call'[c].err # "nil"
               /\ UNCHANGED <<processes, pmon, os, owner, ledger, asyncSaves>>
       /\ StartTunnelError(c)
            => UNCHANGED <<processes, pmon, os, owner, ledger, asyncSaves>>
       /\ StartTunnelErrorNotify(c)
            => /\ out' = Out(c, "start", call[c].id, "start_failed")
               /\ tunnels'[call[c].id].Status = StatusError
               /\ tunnels'[call[c].id].LastError = call[c].err
               /\ call[c].err # "nil"
               /\ UNCHANGED <<processes, pmon, os, owner, ledger, asyncSaves>>]_vars

\* C12 witness: a StartTunnel whose spawn failed has returned its error
C12_Witness ==
  /\ out = Out("c1", "start", "a", "start_failed")
  /\ tunnels["a"].Status = StatusError
  /\ tunnels["a"].LastError = "spawn"

\* the configuration operations and the results a call can return
ConfigOps == {"add", "update", "delete"}

\* C13: when the rewrite of config.json fails in AddTunnel, UpdateTunnel or
\* DeleteTunnel, the call returns the error and the registry (the ids and the
\* tunnel object stored under each) is as it was before the call.
C13_SaveFailureRollsBack ==
  [][\A c \in Callers : \A id \in Ids : \A op \in ConfigOps :
       (out' = Out(c, op, id, "save_failed") /\ ~ConsumeEvent)
         => UNCHANGED <<tunnels, configFile, call>>]_vars

\* C13 witness: an UpdateTunnel that would have replaced a tunnel whose start
\* is in progress has returned the error of the failed rewrite
C13_Witness ==
  /\ out = Out("c2", "update", "a", "save_failed")
  /\ tunnels["a"].Status = StatusConnecting

\* C14: an AddTunnel or UpdateTunnel with an object that fails validation, and
\* a StartTunnel of a tunnel whose spec fails validation, return an error,
\* spawn nothing, leave the registry (status and last error included) as it
\* was and emit no event.
C14_InvalidSpecChangesNothing ==
  [][\A c \in Callers : \A id \in Ids :
       /\ \A op \in ConfigOps :
            (out' = Out(c, op, id, "invalid") /\ ~ConsumeEvent)
              => UNCHANGED <<tunnels, configFile, statusChanges, os, processes>>
       /\ (id \in invalid /\ tunnels[id] # NoTunnel /\ StartTunnelBegin(c, id))
            => /\ out'.res \notin {"none", "ok"}
               /\ UNCHANGED <<tunnels, statusChanges, os, processes>>
       /\ (call[c].bad /\ call[c].id = id
              /\ (StartTunnelConnect(c) \/ StartTunnelError(c) \/ StartTunnelErrorNotify(c)))
            => UNCHANGED <<tunnels, statusChanges, os, processes>>]_vars

\* C15: UpdateTunnel and DeleteTunnel against a Running tunnel return an error
\* and change nothing; they replace or delete a tunnel only when its status
\* is Stopped or Error, never while it is Connecting.
C15_ConfigOnlyWhenInactive ==
  [][\A c \in Callers : \A id \in Ids :
       ((\E t \in UpdateArgs(id) : UpdateTunnel(c, id, t)) \/ DeleteTunnel(c, id))
         => /\ tunnels[id].Status = StatusRunning
                 => (out'.res # "ok" /\ UNCHANGED <<tunnels, configFile>>)
            /\ tunnels[id].Status = StatusConnecting => UNCHANGED <<tunnels, configFile>>
            /\ tunnels'[id] # tunnels[id]
                 => tunnels[id].Status \in {StatusStopped, StatusError}]_vars

\* a call is at a step that emits a status event
AtNotify(c) == call[c].pc \in {"start_connect", "start_error_notify", "start_finish", "stop_finish"}

\* the step of a call that emits a status event
NotifyStep(c) ==
  StartTunnelConnect(c) \/ StartTunnelErrorNotify(c) \/ StartTunnelFinish(c) \/ StopTunnelFinish(c)

\* C16: the event queue never holds more than its capacity; a call that is to
\* emit an event can always take that step, and when the queue is full the
\* step leaves the queue as it is and the call goes on, with no consumer at all.
C16_NotifyNeverBlocks ==
  [][/\ Len(statusChanges') <= QueueCap
     /\ \A c \in Callers :
          /\ AtNotify(c) => ENABLED NotifyStep(c)
          /\ (Len(statusChanges) = QueueCap /\ NotifyStep(c))
               => (statusChanges' = statusChanges /\ call'[c].pc # call[c].pc)]_vars

\* C16 witness: a start has returned success with the queue full of older
\* events: its Running event was dropped
C16_Witness ==
  /\ Len(statusChanges) = QueueCap
  /\ out = Out("c1", "start", "a", "ok")
  /\ statusChanges[QueueCap].NewStatus # StatusRunning

\* in the calls cl and the waiters tm an actor holds an event (id, o, n) that
\* it has still to emit: the values its notifyStatusChange call will carry
PendingEvent(cl, tm, id, o, n) ==
  \/ \E c \in Callers :
       /\ cl[c].id = id
       /\ \/ cl[c].pc = "start_connect" /\ o = cl[c].old /\ n = StatusConnecting
          \/ cl[c].pc = "start_error_notify" /\ o = StatusConnecting /\ n = StatusError
          \/ cl[c].pc \in {"start_addpid_load", "start_finish"} /\ o = StatusConnecting /\ n = StatusRunning
          \/ cl[c].pc \in {"stop_removepid_load", "stop_finish"} /\ o = cl[c].old /\ n = StatusStopped
  \/ \E p \in Pids :
       /\ tm[p].id = id /\ tm[p].pc \in {"load", "save"}
       /\ tm[p].old = o /\ tm[p].new = n /\ o # n

Statuses == {StatusStopped, StatusRunning, StatusError, StatusConnecting}

\* C17: within one life of the supervisor, every step that changes the status
\* of a tunnel leaves its actor with exactly that event (old status, new
\* status) to emit, and an actor takes up an event to emit only in a step that
\* changes the status from the event's old status to its new status.
C17_EveryTransitionOneEvent ==
  [][restarts' = restarts =>
       \A id \in Ids :
         (tunnels[id] # NoTunnel /\ tunnels'[id] # NoTunnel) =>
           /\ tunnels'[id].Status # tunnels[id].Status
                => PendingEvent(call', tmon', id, tunnels[id].Status, tunnels'[id].Status)
           /\ \A o, n \in Statuses :
                (PendingEvent(call', tmon', id, o, n) /\ ~PendingEvent(call, tmon, id, o, n))
                  => (tunnels[id].Status = o /\ tunnels'[id].Status = n)]_vars

\* the process Disconnect(id, pid) signals: the one of the handle, else pid
Target(c) == IF processes[call[c].id] = 0 THEN call[c].pid ELSE processes[call[c].id]

\* C18: Disconnect returns no error when the process it is to end has
\* already exited, with a handle and without one.
C18_GoneProcessIsSuccess ==
  [][\A c \in Callers :
       (StopTunnelDisconnect(c) /\ Target(c) \in Pids /\ ~isProcessRunning(Target(c)))
         => call'[c].err = "nil"]_vars

\* C19: without a handle, Disconnect returns with the process gone or a
\* SIGKILL sent to it, and so does the StopTunnel that called it.
C19_FallbackKillsSurvivor ==
  [][\A c \in Callers :
       /\ (StopTunnelDisconnect(c) /\ processes[call[c].id] = 0 /\ call[c].pid \in Pids)
            => \/ os'[call[c].pid] = "dead"
               \/ \E t \in {"pid", "group"} : <<call[c].pid, "KILL", t>> \in sent'
       /\ (StopTunnelFinish(c) /\ call[c].pid \in Pids /\ <<"TERM", "pid">> \in sigs[call[c].pid])
            => \/ os'[call[c].pid] = "dead"
               \/ \E t \in {"pid", "group"} : <<"KILL", t>> \in sigs'[call[c].pid]]_vars

\* C20: the step that ends StopTunnel returns success with the tunnel Stopped,
\* its pid and start time cleared and no ledger record for it, whatever
\* Disconnect returned.
C20_StopAlwaysCleansUp ==
  [][\A c \in Callers :
       StopTunnelFinish(c) =>
         /\ out' = Out(c, "stop", call[c].id, "ok")
         /\ tunnels'[call[c].id] # NoTunnel
         /\ tunnels'[call[c].id].Status = StatusStopped
         /\ tunnels'[call[c].id].PID = 0
         /\ tunnels'[call[c].id].StartedAt = 0
         /\ ledger'[call[c].id] = NoRec]_vars

\* C20 witness: a stop whose Disconnect returned an error is about to return,
\* its tunnel already Stopped with pid 0
C20_Witness ==
  /\ call["c1"].pc = "stop_finish"
  /\ call["c1"].err = "kill_failed"
  /\ tunnels[call["c1"].id].Status = StatusStopped
  /\ tunnels[call["c1"].id].PID = 0
  /\ call["c1"].snap[call["c1"].id] = NoRec

\* C21: Cleanup starts one goroutine for each id with a handle and for no
\* other; it returns nil or the summary error only when all of them are done,
\* nil exactly when none sent an error, and then no process of the handles
\* tracked at the call is left alive; with all done and the deadline not reached it does not return
\* the deadline error, and with the deadline reached and a goroutine still
\* busy it returns the deadline error.
C21_CleanupResult ==
  [][/\ CleanupBegin =>
          /\ bulk'.ids = {i \in Ids : processes[i] # 0}
          /\ \A i \in Ids : bulk'.w[i] = IF processes[i] # 0 THEN "lookup" ELSE "none"
     /\ \A i \in Ids : (CleanupLookup(i) /\ processes[i] # 0) => bulk'.w[i] = "disconnect"
     /\ CleanupReturn =>
          /\ out'.res \in {"ok", "cleanup_errors", "deadline"}
          /\ out'.res = "ok" => (CleanupAllDone /\ bulk.errs = {})
          /\ out'.res = "cleanup_errors" => (CleanupAllDone /\ bulk.errs # {})
          /\ out'.res = "deadline" => bulk.expired
          /\ (CleanupAllDone /\ ~bulk.expired) => out'.res # "deadline"
          /\ (bulk.expired /\ ~CleanupAllDone) => out'.res = "deadline"
          /\ out'.res # "deadline" =>
               \A i \in bulk.ids : os[bulk.seen[i]] = "dead"]_vars

\* caller c is in the loop of StartProfileTunnels
InProfileLoop(c) == batch.pc = "loop" /\ batch.by = c

\* a step in which the StartTunnel of caller c returns
StartReturns(c) ==
  /\ StartProfileCall(c) \/ StartTunnelErrorNotify(c) \/ StartTunnelFinish(c)
  /\ out'.op = "start"

\* C22: in the loop of StartProfileTunnels every tunnel not listed as Running
\* can be started; whatever a StartTunnel returns the loop moves on to the
\* next tunnel, noting the tunnel as failed exactly when the start returned
\* an error; the call returns only past the last tunnel, nil exactly when no
\* tunnel is noted as failed.
C22_StartProfileAggregates ==
  [][\A c \in Callers :
       /\ (InProfileLoop(c) /\ KeepsUp /\ call[c].pc = "idle" /\ batch.i <= Len(batch.list)
             /\ batch.list[batch.i].Status # StatusRunning)
            => ENABLED StartProfileCall(c)
       /\ (InProfileLoop(c) /\ StartReturns(c)) =>
            /\ out'.id = batch.list[batch.i].id
            /\ batch'.i = batch.i + 1
            /\ batch'.pc = "loop"
            /\ batch'.failed = IF out'.res = "ok" THEN batch.failed
                                                 ELSE batch.failed \cup {out'.id}
       /\ StartProfileReturn(c) =>
            /\ batch.i = Len(batch.list) + 1
            /\ out'.res = IF batch.failed = {} THEN "ok" ELSE "failed_to_start"]_vars

\* C22 witness: StartProfileTunnels has returned its error for a profile of
\* two tunnels: the start of the first failed, the second was started after it
C22_Witness ==
  /\ out = Out("c1", "start_profile", "all", "failed_to_start")
  /\ Len(batch.list) = 2
  /\ batch.failed = {"a"}
  /\ tunnels["a"].Status = StatusError
  /\ tunnels["b"].Status = StatusRunning

\* the entries of a ledger, and those of them whose process is alive
Entries(data) == {i \in Ids : data[i] # NoRec}
LiveEntries(data) == {i \in Entries(data) : data[i].PID \in Pids /\ os[data[i].PID] = "alive"}

\* C23: when every entry of the persisted ledger has a live process, LoadPids
\* returns the persisted map and starts no writer, and the SavePids of what
\* was loaded persists exactly that map.
C23_RoundTripAllAlive ==
  [][\A c \in Callers :
       /\ (StoreLoad(c) /\ LiveEntries(ledger) = Entries(ledger))
            => (call'[c].snap = ledger /\ asyncSaves' = asyncSaves)
       /\ StoreSave(c) => ledger' = call[c].snap]_vars

\* C23 witness: a ledger of two entries, both processes alive, has been
\* loaded and saved and is what it was
C23_Witness ==
  /\ out = Out("c1", "roundtrip", "all", "ok")
  /\ Cardinality(Entries(ledger)) = 2
  /\ LiveEntries(ledger) = Entries(ledger)
  /\ asyncSaves = {}

\* C24 as stated: of N entries with M < N live ones, the map save(load())
\* persists holds N - M entries.
C24_RoundTripKeepsDeadCount ==
  [][\A c \in Callers :
       (StoreLoad(c) /\ LiveEntries(ledger) # Entries(ledger))
         => Cardinality(Entries(call'[c].snap))
              = Cardinality(Entries(ledger)) - Cardinality(LiveEntries(ledger))]_vars

\* C24: of N entries with M < N live ones, LoadPids returns exactly the M
\* entries whose process is alive, unchanged, and starts a writer of that map;
\* the SavePids of what was loaded persists exactly these M entries.
C24_RoundTripKeepsLive ==
  [][\A c \in Callers :
       /\ (StoreLoad(c) /\ LiveEntries(ledger) # Entries(ledger)) =>
            /\ Entries(call'[c].snap) = LiveEntries(ledger)
            /\ \A i \in LiveEntries(ledger) : call'[c].snap[i] = ledger[i]
            /\ \E w \in asyncSaves' : w.data = call'[c].snap
       /\ StoreSave(c) => Entries(ledger') = Entries(call[c].snap)]_vars

\* C24 witness: a map with one entry was loaded from a ledger of two entries,
\* one of them of a dead process, and has been saved
C24_Witness ==
  /\ out = Out("c1", "roundtrip", "all", "ok")
  /\ Cardinality(Entries(ledger)) = 1
  /\ LiveEntries(ledger) = Entries(ledger)
  /\ \E w \in asyncSaves : w.data = ledger

\* the arguments of the last buildSSHArgs: of the tunnel, as built
BuiltFor == lib.arg
Built == lib.ret

StabilityOptions ==
  {<<Arg("-N")>>, <<Arg("-T")>>,
   <<Arg("-o"), Arg("ServerAliveInterval=60")>>, <<Arg("-o"), Arg("ServerAliveCountMax=3")>>,
   <<Arg("-o"), Arg("ExitOnForwardFailure=yes")>>,
   <<Arg("-o"), Arg("StrictHostKeyChecking=accept-new")>>,
   <<Arg("-o"), Arg("ControlMaster=no")>>, <<Arg("-o"), Arg("ControlPath=none")>>}

\* where the extra arguments begin in the built arguments
ExtraAt == Len(Built) - (IF lib.debug THEN 1 ELSE 0) - Len(BuiltFor.ExtraArgs)

C28_ValidateAccepts ==
  lib.op = "Validate" =>
    (lib.ret = "nil" <=>
       /\ lib.arg.Name # "" /\ lib.arg.SSHHost # ""
       /\ lib.arg.Type \in {"local", "remote", "dynamic"}
       /\ lib.arg.LocalPort \in 1..65535
       /\ lib.arg.Type \in {"local", "remote"} => lib.arg.RemotePort \in 1..65535)

\* C28 witness: a dynamic forward without a destination port was accepted
C28_Witness ==
  /\ lib.op = "Validate" /\ lib.ret = "nil"
  /\ lib.arg.Type = "dynamic"
  /\ lib.arg.RemotePort = 0

\* the tunnel the registry stores, the tunnel the caller holds
StoredTunnel == Value(lib.mem, lib.mem.t)
ReturnedTunnel == Value(lib.mem, lib.mem.c)

\* C29: what a read returns says what the stored tunnel says (but for the
\* profile), and no write of the caller to the returned tunnel, to the
\* elements of its ExtraArgs or to the time of its StartedAt changes what the
\* stored tunnel says.
C29_ReturnedCopyIsDetached ==
  [][/\ GetTunnel => /\ StoredTunnel' = StoredTunnel
                     /\ ReturnedTunnel' = [StoredTunnel EXCEPT !.Profile = ""]
     /\ CallerWrites => StoredTunnel' = StoredTunnel]_vars

\* C29 witness: the caller has overwritten an element of the ExtraArgs and the
\* start time of the tunnel it was returned, and the stored tunnel has its own
C29_Witness ==
  /\ lib.op = "written"
  /\ ReturnedTunnel.ExtraArgs = <<"-v", "-v">>
  /\ ReturnedTunnel.StartedAt = <<0>>
  /\ StoredTunnel.ExtraArgs = <<"-p", "2222">>
  /\ StoredTunnel.StartedAt # <<0>>

\* C30: an UpdateTunnel that returns nil leaves the status, the pid, the start
\* time and the last error of the tunnel as they were before the call,
\* whatever the object the caller passed carries in these fields.
C30_UpdateKeepsRuntimeState ==
  [][\A id \in Ids :
       ((\E t \in UpdateArgs(id) : UpdateTunnel("c2", id, t))
          /\ out' = Out("c2", "update", id, "ok"))
         => /\ tunnels'[id].Status = tunnels[id].Status
            /\ tunnels'[id].PID = tunnels[id].PID
            /\ tunnels'[id].StartedAt = tunnels[id].StartedAt
            /\ tunnels'[id].LastError = tunnels[id].LastError]_vars

\* C25: when the StartTunnel calls for two different tunnels have returned,
\* each having added its PidInfo while the other ran, the ledger holds the
\* PidInfo of both running tunnels.
C25_BothAddsPersist ==
  ((\A c \in Callers : call[c].pc = "idle")
     /\ \A id \in Ids : tunnels[id].Status = StatusRunning)
    => \A id \in Ids : ledger[id] # NoRec /\ ledger[id].PID = tunnels[id].PID

\* the operation that holds tm.mu over more than one step
Holder == IF bulk.mu THEN "shutdown" ELSE "none"

\* a step in which who reads or writes pids.json, or waits for a process
IoOrWaitBy(who) ==
  IF who = "shutdown"
    THEN StopAllRemovePidLoad \/ StopAllRemovePidSave
    ELSE \/ StartTunnelAddPidLoad(who) \/ StartTunnelFinish(who)
         \/ StopTunnelWait(who) \/ StopTunnelRemovePidLoad(who) \/ StopTunnelFinish(who)

\* C31: no operation reads or writes the ledger file, or waits for a process
\* to exit, in a state where it holds the registry's exclusive lock.
C31_NoIoUnderLock ==
  [][\A who \in Callers \cup {"shutdown"} : IoOrWaitBy(who) => Holder # who]_vars

\* C33: StopAllTunnels makes a Running tunnel Stopped only when a termination
\* signal has been sent to the process of the pid the tunnel records, or that
\* process has exited.
C33_BulkStopOnlySignalled ==
  [][\A id \in Ids :
       (StopAllMark(id) /\ tunnels[id].Status = StatusRunning)
         => LET p == tunnels[id].PID
            IN p \in Pids /\ (os[p] = "dead" \/ sigs[p] # {})]_vars

\* C32: a StopTunnel that has found its tunnel Running returns, whether or not
\* the process ever exits of itself.
C32_StopReturns ==
  \A c \in Callers : (call[c].op = "stop") ~> (call[c].pc = "idle")

\* C32 witness: the process had not exited when the grace window elapsed;
\* Disconnect has killed it and StopTunnel goes on
C32_Witness ==
  \E p \in Pids :
    /\ call["c1"].op = "stop" /\ call["c1"].pc = "stop_cleanup" /\ call["c1"].pid = p
    /\ sent = {GraceKill(p)}

\* C34: the waiter of a process, and the Disconnect that has signalled a
\* process, remove the handle stored under the tunnel's id only when it is the
\* handle of that process.
C34_HandleRemovedByItsOwnProcess ==
  [][/\ \A p \in Pids :
          monitorProcess(p) => processes[owner[p]] \in {0, p}
     /\ \A c \in Callers :
          StopTunnelWait(c) => processes[call[c].id] \in {0, call[c].pid}]_vars

\* C35: when no operation, waiter or writer is at work, every live process
\* this supervisor has spawned and sent no signal is the pid recorded by a
\* tunnel that is Running.
C35_NoOrphanedChild ==
  Quiescent =>
    \A p \in Pids :
      (os[p] = "alive" /\ owner[p] \in Ids /\ sigs[p] = {})
        => \E id \in Ids : tunnels[id].Status = StatusRunning /\ tunnels[id].PID = p

\* C36: restoreTunnelStates reports a tunnel Running only with the pid of a
\* process a supervisor spawned for that tunnel, and every signal is
\* delivered to a process a supervisor spawned for a tunnel.
C36_OnlyOwnProcesses ==
  [][/\ \A id \in Ids :
          (restoreEntry(id) /\ tunnels'[id].Status = StatusRunning)
            => owner[tunnels'[id].PID] = id
     /\ \A s \in sent' : owner[s[1]] \in Ids]_vars

\* no registry call is in progress and no waiter is at work
AtRestNow == (\A c \in Callers : call[c].pc = "idle") /\ WaitersIdle

\* C37: when no operation or waiter is at work, the event that was sent last
\* and is still in the channel carries as newStatus the status of its tunnel
\* (an event is sent only when the earlier ones have been received, so none
\* is dropped and the last one in the channel is the last one sent).
C37_LastEventIsCurrentStatus ==
  (AtRestNow /\ statusChanges # <<>>)
    => LET e == statusChanges[Len(statusChanges)]
       IN e.NewStatus = tunnels[e.TunnelID].Status

\* C38: the tunnel a read returns says in every field, the profile included,
\* what the stored tunnel says.
C38_ReturnedCopyEqualsStored ==
  [][GetTunnel => ReturnedTunnel' = StoredTunnel']_vars

\* C39: the spec loaded at the next construction has the identifier, name,
\* type, SSH host, bind host and port, destination host and port, extra
\* arguments, profile and auto-connect flag of the valid spec that was saved.
C39_ConfigRoundTrip ==
  lib.op = "roundtrip" =>
    /\ lib.ret.ID = lib.arg.ID /\ lib.ret.Name = lib.arg.Name
    /\ lib.ret.Type = lib.arg.Type /\ lib.ret.SSHHost = lib.arg.SSHHost
    /\ lib.ret.LocalHost = lib.arg.LocalHost /\ lib.ret.LocalPort = lib.arg.LocalPort
    /\ lib.ret.RemoteHost = lib.arg.RemoteHost /\ lib.ret.RemotePort = lib.arg.RemotePort
    /\ lib.ret.ExtraArgs = lib.arg.ExtraArgs
    /\ lib.ret.Profile = lib.arg.Profile /\ lib.ret.AutoConnect = lib.arg.AutoConnect

\* C40: a record that AddPid has saved stays in the ledger while its process
\* lives and no RemovePid takes it out, and a record RemovePid has taken out
\* does not come back: the asynchronous write of an earlier LoadPids neither
\* drops the record of a live process nor brings back a record that is gone.
C40_PruningKeepsLaterResults ==
  [][AsyncSavePids
       => \A id \in Ids :
            /\ (ledger[id] # NoRec /\ isProcessRunning(ledger[id].PID))
                 => ledger'[id] = ledger[id]
            /\ ledger[id] = NoRec => ledger'[id] = NoRec]_vars

====
